---- MODULE Spec2Model ----
(***************************************************************************)
(* A model of parts of the HUGR library:                                   *)
(*   - the CFG builder (src/src/builder/cfg.rs), specification Spec;       *)
(*     SpecBlocks builds wider blocks, SpecBasic follows test basic_cfg;   *)
(*   - sibling subgraphs (src/src/hugr/views/sibling_subgraph.rs),         *)
(*     specification SpecSub; SpecRep adds try_from_nodes and the          *)
(*     replacement of a subgraph;                                          *)
(*   - typecheck_const (src/src/hugr/typecheck.rs), specification SpecTc;  *)
(*   - ExtensionRegistry (src/src/extension.rs), specification SpecReg;    *)
(*     ExtensionSet, specification SpecSet; Extension::add_value,          *)
(*     specification SpecExt;                                              *)
(*   - TypeRow (src/src/types/simple.rs), specification SpecRow.           *)
(***************************************************************************)
EXTENDS Integers, Sequences, FiniteSets, TLC

VARIABLES
    hugr,       \* CFGBuilder.base: the HUGR under construction
    inputs,     \* CFGBuilder.inputs: Option<TypeRow>, <<>> is None, <<row>> is Some(row)
    ret,        \* the last call on the builder and what it returned
    nBranch,    \* number of branch calls made so far
    succCalls,  \* per node, the number of successful branch calls naming it as successor
    branchFailed, \* whether some branch call returned an error
    entryOk,    \* number of entry_builder / simple_entry_builder calls that returned Ok
    entryNode,  \* the block the successful entry call returned, -1 before
    budget,     \* how many calls that change the HUGR the run may make
    scen,       \* progress of the calls so far along the basic_cfg scenario, -1 when off it
    view,       \* the HugrView a SiblingSubgraph constructor is called on
    incoming,   \* the IncomingPorts argument of try_new
    outgoing,   \* the OutgoingPorts argument of try_new
    pc,         \* the constructor about to be called, "returned" after it
    subgraph,   \* what the constructor returned
    nodes_arg,  \* the nodes argument of try_from_nodes
    replacement, \* the replacement Hugr given to create_simple_replacement
    rewrite,    \* what create_simple_replacement returned
    typ,        \* the ClassicType argument of typecheck_const
    val,        \* the ConstValue argument of typecheck_const
    checked,    \* what typecheck_const returned
    value,      \* the extensions given to ExtensionRegistry::try_new
    registry,   \* what ExtensionRegistry::try_new returned
    extension,  \* the Extension that add_value is called on
    operands,   \* the arguments of the call of a function on extension sets or type rows
    result      \* the function called and what it returned

vars == <<hugr, inputs, ret, nBranch, succCalls, branchFailed, entryOk, entryNode, budget,
          scen, view, incoming, outgoing, pc, subgraph,
          nodes_arg, replacement, rewrite, typ, val, checked, value, registry,
          extension, operands, result>>

\* the variables of the CFG builder and those of the subgraph constructors
cfgvars == <<hugr, inputs, ret, nBranch, succCalls, branchFailed, entryOk, entryNode, budget,
            scen>>
subvars == <<view, incoming, outgoing, pc, subgraph>>
\* those of the simple replacements, of typecheck_const and of the extension registry
repvars == <<nodes_arg, replacement, rewrite>>
tcvars == <<typ, val, checked>>
regvars == <<value, registry>>
\* those of an Extension under construction and of the calls on extension sets and rows
fnvars == <<extension, operands, result>>

\* no subgraph constructor in play
SubIdle ==
    /\ view = <<>>
    /\ incoming = <<>>
    /\ outgoing = <<>>
    /\ pc = "idle"
    /\ subgraph = <<>>

\* no replacement, no constant and no registry in play
RepIdle == nodes_arg = <<>> /\ replacement = <<>> /\ rewrite = <<>>
TcIdle == typ = <<>> /\ val = <<>> /\ checked = <<>>
RegIdle == value = <<>> /\ registry = <<>>
FnIdle == extension = <<>> /\ operands = <<>> /\ result = <<>>

(***************************************************************************)
(* Bounds of the model.                                                    *)
(***************************************************************************)
\* calls that change the HUGR, per run of Spec
MaxCalls == 4
\* calls that change the HUGR, per run of SpecBasic
MaxBasicCalls == 5
\* blocks built per run of SpecBlocks
MaxWideBlocks == 2
\* size of the boundary try_new is called with: its ports, an empty partition counting one
MaxBoundary == 3

\* the element types used in rows
NAT == [tag |-> "NAT", variants |-> <<>>]
\* the arguments block_builder is called with: inputs, predicate_variants, other_outputs
BlockArgs == {<< <<>>, << <<NAT>>, <<NAT>> >>, <<>> >>}
\* the arguments simple_block_builder is called with: inputs, outputs, n_cases
SimpleBlockArgs == {<< <<NAT>>, <<NAT>>, 1 >>}
\* the arguments entry_builder is called with: predicate_variants, other_outputs
EntryArgs == {<< << <<NAT>>, <<NAT>> >>, <<>> >>}
\* the arguments simple_entry_builder is called with: outputs, n_cases
SimpleEntryArgs == {<< <<NAT>>, 1 >>}
\* the branch indices branch is called with
BranchChoices == {0, 1}
\* the wider arguments of SpecBlocks
QB == [tag |-> "QB", variants |-> <<>>]
WideRows == {<<>>, <<NAT, QB>>}
WideVariants == {<<>>, << <<NAT>>, <<NAT>> >>, << <<QB>>, <<>> >>}
WideNCases == {0, 1, 2}

(***************************************************************************)
(* Types and ops.                                                          *)
(***************************************************************************)
None == <<>>
Some(x) == <<x>>

\* SimpleType::new_predicate(variants): the Sum over the variant rows
new_predicate(variants) == [tag |-> "Sum", variants |-> variants]

\* vec![type_row![]; n_cases]
EmptyVariants(n) == [i \in 1..n |-> <<>>]

BlockOp(ins, variants, outs) ==
    [kind |-> "Block", inputs |-> ins, predicate_variants |-> variants,
     other_outputs |-> outs]
ExitOp(outs) ==
    [kind |-> "Exit", inputs |-> outs, predicate_variants |-> <<>>,
     other_outputs |-> <<>>]
CfgOp(ins, outs) ==
    [kind |-> "CFG", inputs |-> ins, predicate_variants |-> <<>>,
     other_outputs |-> outs]

(***************************************************************************)
(* HugrMut: the HUGR is a record                                           *)
(*   op       : node -> its OpType                                         *)
(*   children : node -> the sequence of its children, in hierarchy order   *)
(*   numIn, numOut : node -> number of incoming / outgoing ports           *)
(*   links    : set of [src, sport, dst, dport]                            *)
(*   io       : dataflow parent -> the rows of its Input and Output child  *)
(* Nodes are 0 .. n-1 in order of creation.                                *)
(***************************************************************************)
Nodes(h) == DOMAIN h.op
node_count(h) == Cardinality(DOMAIN h.op)

num_inputs(h, n) == h.numIn[n]
num_outputs(h, n) == h.numOut[n]

\* the children with n inserted just before sibling
InsertBefore(s, sibling, n) ==
    LET i == CHOOSE k \in 1..Len(s) : s[k] = sibling
    IN  SubSeq(s, 1, i - 1) \o <<n>> \o SubSeq(s, i, Len(s))

ParentOf(h, n) == CHOOSE p \in Nodes(h) : \E k \in 1..Len(h.children[p]) : h.children[p][k] = n

NewNode(h, op) ==
    LET n == node_count(h)
    IN  [h EXCEPT !.op = (n :> op) @@ @,
                  !.children = (n :> <<>>) @@ @,
                  !.numIn = (n :> 0) @@ @,
                  !.numOut = (n :> 0) @@ @]

\* add_op_before(sibling, op): the new node becomes the sibling just before `sibling`
add_op_before(h, sibling, op) ==
    [hugr |-> [NewNode(h, op) EXCEPT
                  !.children[ParentOf(h, sibling)] = InsertBefore(@, sibling, node_count(h))],
     node |-> node_count(h)]


set_num_ports(h, n, n_incoming, n_outgoing) ==
    [h EXCEPT !.numIn[n] = n_incoming, !.numOut[n] = n_outgoing]

\* connect(src, src_port, dst, dst_port): fails when a port does not exist or is
\* already connected
CanConnect(h, src, sport, dst, dport) ==
    /\ sport < h.numOut[src]
    /\ dport < h.numIn[dst]
    /\ ~ \E l \in h.links : l.src = src /\ l.sport = sport
    /\ ~ \E l \in h.links : l.dst = dst /\ l.dport = dport

connect(h, src, sport, dst, dport) ==
    IF CanConnect(h, src, sport, dst, dport)
    THEN [ok |-> TRUE,
          hugr |-> [h EXCEPT !.links = @ \cup
                       {[src |-> src, sport |-> sport, dst |-> dst, dport |-> dport]}]]
    ELSE [ok |-> FALSE, hugr |-> h]

\* DFGBuilder::create_with_io(base, parent, inputs, outputs): the dataflow region inside
\* `parent`, given by the rows of its Input and Output nodes
create_with_io(h, parent, ins, outs) ==
    [h EXCEPT !.io = (parent :> [input |-> ins, output |-> outs]) @@ @]

(***************************************************************************)
(* CFGBuilder.                                                             *)
(***************************************************************************)
cfg_node == 0
exit_node == 1

\* the CFG this builder was made for: cfg_builder(vec![(NAT, int)], type_row![NAT])
CfgInputs == <<NAT>>
CfgOutputs == <<NAT>>

\* the block handles a caller can hold: the blocks built so far and the exit
Blocks(h) == {h.children[cfg_node][k] : k \in 1..Len(h.children[cfg_node])}
BuiltBlocks(h) == {n \in Blocks(h) : h.op[n].kind = "Block"}

\* mutant: the predicate put after the data outputs
NodeOutputs_PredicateLast(predicate_variants, other_outputs) ==
    other_outputs \o <<new_predicate(predicate_variants)>>

\* [&[predicate_type], other_outputs.as_ref()].concat()
NodeOutputs(predicate_variants, other_outputs) ==
    <<new_predicate(predicate_variants)>> \o other_outputs

\* mutant: the block added as the last child, after the exit
AddBlock_Last(h, op) ==
    [hugr |-> [NewNode(h, op) EXCEPT !.children[cfg_node] = Append(@, node_count(h))],
     node |-> node_count(h)]

\* where block_builder adds the block: add_op_before(exit, op)
AddBlock(h, op) == add_op_before(h, exit_node, op)

\* mutant: a new block given an incoming port
BlockPorts_OneInput(h, block_n, n_cases) == set_num_ports(h, block_n, 1, n_cases)

\* mutant: a new block given one outgoing port too many
BlockPorts_ExtraCase(h, block_n, n_cases) == set_num_ports(h, block_n, 0, n_cases + 1)

\* set_num_ports(block_n, 0, n_cases)
BlockPorts(h, block_n, n_cases) == set_num_ports(h, block_n, 0, n_cases)

\* the HUGR after block_builder(inputs, predicate_variants, other_outputs), and the block
BlockBuilt(h, ins, predicate_variants, other_outputs) ==
    LET n_cases == Len(predicate_variants)
        op == BlockOp(ins, predicate_variants, other_outputs)
        node_outputs == NodeOutputs(predicate_variants, other_outputs)
    IN  CHOOSE r \in
          { [hugr |-> create_with_io(BlockPorts(a.hugr, a.node, n_cases),
                                     a.node, ins, node_outputs),
             node |-> a.node] : a \in {AddBlock(h, op)} } : TRUE

Ret(call, ok, err, node) == [call |-> call, ok |-> ok, err |-> err, node |-> node]

\* calls that change the HUGR are counted, and the model stops at `budget` of them
CanCall == Cardinality(BuiltBlocks(hugr)) + nBranch < budget

\* scenario basic_cfg: entry_builder, simple_block_builder, then three branches
ScenStep(k, matches) == IF scen = k /\ matches THEN k + 1 ELSE -1

block_builder(ins, predicate_variants, other_outputs) ==
    /\ CanCall
    /\ \E r \in {BlockBuilt(hugr, ins, predicate_variants, other_outputs)} :
           /\ hugr' = r.hugr
           /\ ret' = Ret("block_builder", TRUE, "none", r.node)
    /\ scen' = -1
    /\ UNCHANGED <<inputs, nBranch, succCalls, branchFailed, entryOk, entryNode>>
    /\ UNCHANGED <<budget, subvars, repvars, tcvars, regvars, fnvars>>

simple_block_builder(ins, outs, n_cases) ==
    /\ CanCall
    /\ \E r \in {BlockBuilt(hugr, ins, EmptyVariants(n_cases), outs)} :
           /\ hugr' = r.hugr
           /\ ret' = Ret("simple_block_builder", TRUE, "none", r.node)
    /\ scen' = ScenStep(1, ins = <<NAT>> /\ outs = <<NAT>> /\ n_cases = 1)
    /\ UNCHANGED <<inputs, nBranch, succCalls, branchFailed, entryOk, entryNode>>
    /\ UNCHANGED <<budget, subvars, repvars, tcvars, regvars, fnvars>>

\* mutant: the input row read but not taken
EntryBuilt_NotTaken(call, predicate_variants, other_outputs) ==
    IF inputs = None
    THEN /\ ret' = Ret(call, FALSE, "EntryBuiltError", cfg_node)
         /\ UNCHANGED <<hugr, inputs>>
    ELSE /\ CanCall
         /\ inputs' = inputs
         /\ \E r \in {BlockBuilt(hugr, inputs[1], predicate_variants, other_outputs)} :
                /\ hugr' = r.hugr
                /\ ret' = Ret(call, TRUE, "none", r.node)

\* self.inputs.take().ok_or(EntryBuiltError(cfg_node))?, then block_builder
EntryBuilt(call, predicate_variants, other_outputs) ==
    IF inputs = None
    THEN /\ ret' = Ret(call, FALSE, "EntryBuiltError", cfg_node)
         /\ UNCHANGED <<hugr, inputs>>
    ELSE /\ CanCall
         /\ inputs' = None
         /\ \E r \in {BlockBuilt(hugr, inputs[1], predicate_variants, other_outputs)} :
                /\ hugr' = r.hugr
                /\ ret' = Ret(call, TRUE, "none", r.node)

EntryNoted ==
    /\ entryOk' = IF ret'.ok THEN entryOk + 1 ELSE entryOk
    /\ entryNode' = IF ret'.ok THEN ret'.node ELSE entryNode

entry_builder(predicate_variants, other_outputs) ==
    /\ EntryBuilt("entry_builder", predicate_variants, other_outputs)
    /\ scen' = ScenStep(0, /\ inputs # None
                           /\ predicate_variants = << <<NAT>>, <<NAT>> >>
                           /\ other_outputs = <<>>)
    /\ EntryNoted
    /\ UNCHANGED <<nBranch, succCalls, branchFailed>>
    /\ UNCHANGED <<budget, subvars, repvars, tcvars, regvars, fnvars>>

simple_entry_builder(outs, n_cases) ==
    /\ EntryBuilt("simple_entry_builder", EmptyVariants(n_cases), outs)
    /\ scen' = -1
    /\ EntryNoted
    /\ UNCHANGED <<nBranch, succCalls, branchFailed>>
    /\ UNCHANGED <<budget, subvars, repvars, tcvars, regvars, fnvars>>

exit_block ==
    /\ ret' = Ret("exit_block", TRUE, "none", exit_node)
    /\ UNCHANGED <<hugr, inputs, nBranch, succCalls, branchFailed, entryOk, entryNode, scen>>
    /\ UNCHANGED <<budget, subvars, repvars, tcvars, regvars, fnvars>>

\* mutant: the successor given an outgoing port as well
BranchDone_GrowsOutputs(h, from, branch_idx, to) ==
    LET tin == num_inputs(h, to)
        tout == num_outputs(h, to)
    IN  connect(set_num_ports(h, to, tin + 1, tout + 1), from, branch_idx, to, tin)

\* the HUGR after branch(predecessor, branch, successor), and whether connect succeeded
BranchDone(h, from, branch_idx, to) ==
    LET tin == num_inputs(h, to)
        tout == num_outputs(h, to)
    IN  connect(set_num_ports(h, to, tin + 1, tout), from, branch_idx, to, tin)

ScenBranch(from, branch_idx, to) ==
    LET ch == hugr.children[cfg_node]
    IN  \/ scen = 2 /\ from = ch[1] /\ branch_idx = 0 /\ to = ch[2]
        \/ scen = 3 /\ from = ch[2] /\ branch_idx = 0 /\ to = exit_node
        \/ scen = 4 /\ from = ch[1] /\ branch_idx = 1 /\ to = exit_node

SuccCount(n) == IF n \in DOMAIN succCalls THEN succCalls[n] ELSE 0

branch(predecessor, branch_idx, successor) ==
    /\ CanCall
    /\ nBranch' = nBranch + 1
    /\ \E r \in {BranchDone(hugr, predecessor, branch_idx, successor)} :
           /\ hugr' = r.hugr
           /\ ret' = Ret("branch", r.ok, IF r.ok THEN "none" ELSE "ConnectError", -1)
           /\ succCalls' = IF r.ok THEN (successor :> SuccCount(successor) + 1) @@ succCalls
                           ELSE succCalls
           /\ branchFailed' = (branchFailed \/ ~r.ok)
           /\ scen' = IF r.ok /\ ScenBranch(predecessor, branch_idx, successor)
                      THEN scen + 1 ELSE -1
    /\ UNCHANGED <<inputs, entryOk, entryNode>>
    /\ UNCHANGED <<budget, subvars, repvars, tcvars, regvars, fnvars>>

(***************************************************************************)
(* The state after cfg_builder(inputs, outputs): a CFG node with its exit  *)
(* block as only child, and the input row not yet taken.                   *)
(***************************************************************************)
InitHugr ==
    [op |-> (cfg_node :> CfgOp(CfgInputs, CfgOutputs)) @@ (exit_node :> ExitOp(CfgOutputs)),
     children |-> (cfg_node :> <<exit_node>>) @@ (exit_node :> <<>>),
     numIn |-> (cfg_node :> Len(CfgInputs)) @@ (exit_node :> 0),
     numOut |-> (cfg_node :> Len(CfgOutputs)) @@ (exit_node :> 0),
     links |-> {},
     io |-> << >>]

Init ==
    /\ hugr = InitHugr
    /\ inputs = Some(CfgInputs)
    /\ ret = Ret("new", TRUE, "none", cfg_node)
    /\ nBranch = 0
    /\ succCalls = << >>
    /\ branchFailed = FALSE
    /\ entryOk = 0
    /\ entryNode = -1
    /\ budget = MaxCalls
    /\ scen = 0
    /\ SubIdle
    /\ RepIdle /\ TcIdle /\ RegIdle /\ FnIdle

Next ==
    \/ \E a \in BlockArgs : block_builder(a[1], a[2], a[3])
    \/ \E a \in SimpleBlockArgs : simple_block_builder(a[1], a[2], a[3])
    \/ \E a \in EntryArgs : entry_builder(a[1], a[2])
    \/ \E a \in SimpleEntryArgs : simple_entry_builder(a[1], a[2])
    \/ exit_block
    \/ \E p \in Blocks(hugr), i \in BranchChoices, s \in Blocks(hugr) : branch(p, i, s)

Spec == Init /\ [][Next]_vars

(***************************************************************************)
(* SpecBlocks: the block-building calls alone, over wider arguments.       *)
(***************************************************************************)
CanBuildWide == Cardinality(BuiltBlocks(hugr)) < MaxWideBlocks

NextBlocks ==
    \/ \E ins \in WideRows, pv \in WideVariants, oo \in WideRows :
          CanBuildWide /\ block_builder(ins, pv, oo)
    \/ \E ins \in WideRows, outs \in WideRows, n \in WideNCases :
          CanBuildWide /\ simple_block_builder(ins, outs, n)
    \/ \E pv \in WideVariants, oo \in WideRows :
          (inputs # None => CanBuildWide) /\ entry_builder(pv, oo)
    \/ \E outs \in WideRows, n \in WideNCases :
          (inputs # None => CanBuildWide) /\ simple_entry_builder(outs, n)

SpecBlocks == Init /\ [][NextBlocks]_vars

(***************************************************************************)
(* SpecBasic: the calls of the test basic_cfg, with its arguments, in any  *)
(* order and number up to MaxBasicCalls.                                   *)
(***************************************************************************)
sum2_variants == << <<NAT>>, <<NAT>> >>

InitBasic ==
    /\ hugr = InitHugr
    /\ inputs = Some(CfgInputs)
    /\ ret = Ret("new", TRUE, "none", cfg_node)
    /\ nBranch = 0
    /\ succCalls = << >>
    /\ branchFailed = FALSE
    /\ entryOk = 0
    /\ entryNode = -1
    /\ budget = MaxBasicCalls
    /\ scen = 0
    /\ SubIdle
    /\ RepIdle /\ TcIdle /\ RegIdle /\ FnIdle

NextBasic ==
    \/ entry_builder(sum2_variants, <<>>)
    \/ simple_block_builder(<<NAT>>, <<NAT>>, 1)
    \/ exit_block
    \/ \E p \in Blocks(hugr), i \in BranchChoices, s \in Blocks(hugr) : branch(p, i, s)

SpecBasic == InitBasic /\ [][NextBasic]_vars

(***************************************************************************)
(* The validator's rules for a CFG parent and its blocks.                  *)
(***************************************************************************)
\* the row a basic block takes: a Block's inputs, the Exit's cfg_outputs
dataflow_input(h, n) == h.op[n].inputs

\* the row branch i of block n passes on: variant i of the predicate, then other_outputs
successor_input(h, n, i) == h.op[n].predicate_variants[i + 1] \o h.op[n].other_outputs

ValidateCfg(h) ==
    LET ch == h.children[cfg_node]
        exits == {k \in 1..Len(ch) : h.op[ch[k]].kind = "Exit"}
        nonExit == {k \in 1..Len(ch) : h.op[ch[k]].kind # "Exit"}
    IN  /\ \A k \in 1..Len(ch) : h.op[ch[k]].kind \in {"Block", "Exit"}
        /\ Cardinality(exits) = 1
        /\ nonExit # {}
        /\ \A k \in nonExit : (\A j \in nonExit : k <= j) =>
               dataflow_input(h, ch[k]) = h.op[cfg_node].inputs
        /\ \A b \in BuiltBlocks(h) :
               /\ h.numOut[b] = Len(h.op[b].predicate_variants)
               /\ b \in DOMAIN h.io
               /\ h.io[b].input = h.op[b].inputs
               /\ h.io[b].output = <<new_predicate(h.op[b].predicate_variants)>>
                                      \o h.op[b].other_outputs
        /\ \A l \in h.links :
               /\ l.sport < h.numOut[l.src] /\ l.dport < h.numIn[l.dst]
               /\ successor_input(h, l.src, l.sport) = dataflow_input(h, l.dst)
        /\ \A n \in Blocks(h) : \A k \in 0..(h.numIn[n] - 1) :
               \E l \in h.links : l.dst = n /\ l.dport = k
        /\ \A n \in Blocks(h) : \A k \in 0..(h.numOut[n] - 1) :
               \E l \in h.links : l.src = n /\ l.sport = k

(***************************************************************************)
(* Properties of the CFG builder.                                          *)
(***************************************************************************)
EntryCalls == {"entry_builder", "simple_entry_builder"}

\* C1: at most one entry_builder / simple_entry_builder call returns Ok; a call made
\* after the input row was taken returns EntryBuiltError(cfg_node) and leaves the HUGR
\* as it was, and the row once taken stays taken.
C1_EntryBuiltOnce ==
    /\ [](entryOk <= 1)
    /\ [][ /\ (ret'.call \in EntryCalls /\ inputs = None) =>
                 /\ ~ret'.ok
                 /\ ret'.err = "EntryBuiltError"
                 /\ ret'.node = cfg_node
                 /\ hugr' = hugr
           /\ (inputs = None) => (inputs' = None) ]_vars

C1_Witness ==
    /\ entryOk = 1
    /\ ret.call = "simple_entry_builder"
    /\ ret.err = "EntryBuiltError"
    /\ node_count(hugr) = 3

\* C2: once an entry call has succeeded, the block it returned is the first child of the
\* CFG node, and the first child's input row is the CFG's input row.
C2_EntryIsFirstChild ==
    entryNode # -1 =>
        /\ hugr.children[cfg_node][1] = entryNode
        /\ dataflow_input(hugr, hugr.children[cfg_node][1]) = hugr.op[cfg_node].inputs

\* C3: a successful branch(pred, i, succ) links port i of pred to the incoming port of
\* succ at offset (succ's incoming count before the call), which did not exist before;
\* succ's incoming count grows by one, its outgoing count and every other node's
\* counts stay, and no other link changes.
C3_Post(p, i, s) ==
    LET l == [src |-> p, sport |-> i, dst |-> s, dport |-> hugr.numIn[s]]
    IN  /\ l \notin hugr.links
        /\ hugr'.links = hugr.links \cup {l}
        /\ hugr'.numIn[s] = hugr.numIn[s] + 1
        /\ hugr'.numOut[s] = hugr.numOut[s]
        /\ \A n \in Nodes(hugr) \ {s} :
               hugr'.numIn[n] = hugr.numIn[n] /\ hugr'.numOut[n] = hugr.numOut[n]
        /\ Nodes(hugr') = Nodes(hugr)

C3_BranchConnects ==
    [][ (ret'.call = "branch" /\ ret'.ok) =>
          \A s \in Blocks(hugr) : (s \in DOMAIN succCalls' /\ succCalls'[s] = SuccCount(s) + 1) =>
            \A p \in Blocks(hugr), i \in BranchChoices :
                branch(p, i, s) => C3_Post(p, i, s) ]_vars

C3_Witness ==
    /\ ret.call = "branch" /\ ret.ok
    /\ \E l \in hugr.links : l.dport = 1 /\ l.src = l.dst

\* C4: as long as every branch call so far has succeeded, each block (the exit too) has
\* as many incoming ports as successful branch calls named it as successor, and each
\* of these ports is linked.
C4_InputsCountBranches ==
    ~branchFailed =>
        \A n \in Blocks(hugr) :
            /\ hugr.numIn[n] = SuccCount(n)
            /\ \A k \in 0..(hugr.numIn[n] - 1) :
                   \E l \in hugr.links : l.dst = n /\ l.dport = k

\* three successful branch calls, two of them naming the exit
C4_Witness ==
    /\ ~branchFailed
    /\ nBranch = 3
    /\ hugr.numIn[exit_node] = 2
    /\ SuccCount(exit_node) = 2
    /\ \E b \in BuiltBlocks(hugr) : hugr.numIn[b] = 1 /\ SuccCount(b) = 1

\* C5: the block a block-building call returns is a new node with no incoming port and
\* one outgoing port per predicate variant; its inner region's Input row is the inputs
\* and its Output row is Sum(predicate_variants) followed by other_outputs; the simple
\* calls give n_cases empty variants, the entry calls the CFG's input row.
C5_Shape(b, ins, variants, outs) ==
    /\ b \notin Nodes(hugr)
    /\ b \in BuiltBlocks(hugr')
    /\ hugr'.numIn[b] = 0
    /\ hugr'.numOut[b] = Len(variants)
    /\ hugr'.io[b].input = ins
    /\ hugr'.io[b].output = <<[tag |-> "Sum", variants |-> variants]>> \o outs
    /\ Len(hugr'.io[b].output) = 1 + Len(outs)

C5_NEmpty(n) == [k \in 1..n |-> <<>>]

C5_BlockShape ==
    [][ /\ ret'.call = "block_builder" =>
              \A ins \in WideRows, pv \in WideVariants, oo \in WideRows :
                  block_builder(ins, pv, oo) => C5_Shape(ret'.node, ins, pv, oo)
        /\ ret'.call = "simple_block_builder" =>
              \A ins \in WideRows, outs \in WideRows, n \in WideNCases :
                  simple_block_builder(ins, outs, n) =>
                      C5_Shape(ret'.node, ins, C5_NEmpty(n), outs)
        /\ (ret'.call = "entry_builder" /\ ret'.ok) =>
              \A pv \in WideVariants, oo \in WideRows :
                  entry_builder(pv, oo) => C5_Shape(ret'.node, CfgInputs, pv, oo)
        /\ (ret'.call = "simple_entry_builder" /\ ret'.ok) =>
              \A outs \in WideRows, n \in WideNCases :
                  simple_entry_builder(outs, n) =>
                      C5_Shape(ret'.node, CfgInputs, C5_NEmpty(n), outs) ]_vars

C5_Witness ==
    /\ ret.call = "simple_block_builder"
    /\ hugr.numOut[ret.node] = 2
    /\ hugr.io[ret.node].output = <<[tag |-> "Sum", variants |-> << <<>>, <<>> >>], NAT, QB>>
    /\ \E b \in BuiltBlocks(hugr) :
           /\ hugr.op[b].predicate_variants = << <<QB>>, <<>> >>
           /\ hugr.io[b].output = <<[tag |-> "Sum", variants |-> << <<QB>>, <<>> >>]>>

\* C6 as stated: after the basic_cfg calls the CFG validates and has 3 block children
\* plus the exit.
C6_ThreeBlocksAndExit ==
    scen = 5 =>
        /\ ValidateCfg(hugr)
        /\ Cardinality(BuiltBlocks(hugr)) = 3
        /\ Len(hugr.children[cfg_node]) = 4

\* C6 amended: after the basic_cfg calls the CFG validates and has 2 block children
\* (the entry and the middle block) plus the exit, the exit being targeted twice.
C6_TwoBlocksAndExit ==
    scen = 5 =>
        /\ ValidateCfg(hugr)
        /\ Cardinality(BuiltBlocks(hugr)) = 2
        /\ Len(hugr.children[cfg_node]) = 3
        /\ hugr.children[cfg_node][3] = exit_node

C6_Witness == scen = 5 /\ hugr.numIn[exit_node] = 2

(***************************************************************************)
(* Sibling subgraphs (src/src/hugr/views/sibling_subgraph.rs).             *)
(*                                                                         *)
(* A HugrView is a record: `parent` gives each node's parent (-1 for the   *)
(* root), `children` the root's children in order, `ins` and `outs` the    *)
(* dataflow signature of each node's op, `order` the directions in which   *)
(* the op has an order ("other") port, placed after the dataflow ports,    *)
(* and `links` the edges in the order they were connected.                 *)
(* A (Node, Port) pair is a record [node, dir, offset].                    *)
(***************************************************************************)
Incoming == "Incoming"
Outgoing == "Outgoing"
BOOL_T == [tag |-> "BOOL", variants |-> <<>>]
QB_T == QB

NodePort(n, dir, k) == [node |-> n, dir |-> dir, offset |-> k]
Link(src, sport, dst, dport) == [src |-> src, sport |-> sport, dst |-> dst, dport |-> dport]

\* Type::copyable: the classical types can be copied, qubits cannot
copyable(t) == t = BOOL_T

ViewNodes(h) == DOMAIN h.parent
get_parent(h, n) == h.parent[n]
LinkSet(h) == {h.links[i] : i \in 1..Len(h.links)}

\* the dataflow row of node n in a direction
SignatureRow(h, n, dir) == IF dir = Incoming THEN h.ins[n] ELSE h.outs[n]

\* the number of ports of node n in a direction: dataflow ports, then the order port
num_ports(h, n, dir) == Len(SignatureRow(h, n, dir)) + (IF dir \in h.order[n] THEN 1 ELSE 0)

ViewPorts(h) ==
    UNION {{NodePort(n, dir, k) : k \in 0..(num_ports(h, n, dir) - 1)} :
              n \in ViewNodes(h), dir \in {Incoming, Outgoing}}

\* hugr.get_optype(n).signature().get(p): the type of a dataflow port, None otherwise
signature_get(h, p) ==
    IF p.offset < Len(SignatureRow(h, p.node, p.dir))
    THEN Some(SignatureRow(h, p.node, p.dir)[p.offset + 1])
    ELSE None

\* op.other_port_index(dir): the order port of the op in that direction, if any
other_port_index(h, n, dir) ==
    IF dir \in h.order[n]
    THEN Some(NodePort(n, dir, Len(SignatureRow(h, n, dir))))
    ELSE None

\* whether link l is at port p
LinkAt(l, p) ==
    IF p.dir = Outgoing
    THEN l.src = p.node /\ l.sport = p.offset
    ELSE l.dst = p.node /\ l.dport = p.offset

\* the port at the other end of link l, seen from port p
Peer(l, p) ==
    IF p.dir = Outgoing
    THEN NodePort(l.dst, Incoming, l.dport)
    ELSE NodePort(l.src, Outgoing, l.sport)

is_linked(h, p) == \E l \in LinkSet(h) : LinkAt(l, p)

RECURSIVE LinkedFrom(_, _, _)
LinkedFrom(links, p, i) ==
    IF i > Len(links) THEN <<>>
    ELSE (IF LinkAt(links[i], p) THEN <<Peer(links[i], p)>> ELSE <<>>)
             \o LinkedFrom(links, p, i + 1)

\* hugr.linked_ports(n, p): the ports linked to p, in connection order
linked_ports(h, p) == LinkedFrom(h.links, p, 1)

Range(s) == {s[i] : i \in 1..Len(s)}

(***************************************************************************)
(* The HUGRs the constructors are called on.  Node 0 is the root, node 1   *)
(* its Input child, node 2 its Output child.                               *)
(***************************************************************************)
NoOrder(nodes) == [n \in nodes |-> {}]

\* tests::build_hugr: a function (QB, QB) -> (QB, QB) holding one cx gate (node 3)
HugrCx ==
    [parent |-> (0 :> -1) @@ (1 :> 0) @@ (2 :> 0) @@ (3 :> 0),
     children |-> <<1, 2, 3>>,
     ins |-> (0 :> <<>>) @@ (1 :> <<>>) @@ (2 :> <<QB_T, QB_T>>) @@ (3 :> <<QB_T, QB_T>>),
     outs |-> (0 :> <<>>) @@ (1 :> <<QB_T, QB_T>>) @@ (2 :> <<>>) @@ (3 :> <<QB_T, QB_T>>),
     order |-> NoOrder(0..3),
     links |-> <<Link(1, 0, 3, 0), Link(1, 1, 3, 1), Link(3, 0, 2, 0), Link(3, 1, 2, 1)>>]

\* tests::build_hugr_classical: BOOL -> BOOL, the input copied to both inputs of and (node 3)
HugrClassical ==
    [parent |-> (0 :> -1) @@ (1 :> 0) @@ (2 :> 0) @@ (3 :> 0),
     children |-> <<1, 2, 3>>,
     ins |-> (0 :> <<>>) @@ (1 :> <<>>) @@ (2 :> <<BOOL_T>>) @@ (3 :> <<BOOL_T, BOOL_T>>),
     outs |-> (0 :> <<>>) @@ (1 :> <<BOOL_T>>) @@ (2 :> <<>>) @@ (3 :> <<BOOL_T>>),
     order |-> NoOrder(0..3),
     links |-> <<Link(1, 0, 3, 0), Link(1, 0, 3, 1), Link(3, 0, 2, 0)>>]

\* a chain of one-qubit gates Input -> 3 -> 4 -> 5 -> Output
HugrChain ==
    [parent |-> (0 :> -1) @@ [n \in 1..5 |-> 0],
     children |-> <<1, 2, 3, 4, 5>>,
     ins |-> (0 :> <<>>) @@ (1 :> <<>>) @@ [n \in 2..5 |-> <<QB_T>>],
     outs |-> (0 :> <<>>) @@ (1 :> <<QB_T>>) @@ (2 :> <<>>) @@ [n \in 3..5 |-> <<QB_T>>],
     order |-> NoOrder(0..5),
     links |-> <<Link(1, 0, 3, 0), Link(3, 0, 4, 0), Link(4, 0, 5, 0), Link(5, 0, 2, 0)>>]

\* (BOOL, QB) -> (BOOL, QB): the BOOL wired from Input to Output, the qubit through
\* gate 3, an order edge from gate 3 to node 4, and an unlinked order port on Output
HugrMixed ==
    [parent |-> (0 :> -1) @@ [n \in 1..4 |-> 0],
     children |-> <<1, 2, 3, 4>>,
     ins |-> (0 :> <<>>) @@ (1 :> <<>>) @@ (2 :> <<BOOL_T, QB_T>>) @@ (3 :> <<QB_T>>)
                 @@ (4 :> <<>>),
     outs |-> (0 :> <<>>) @@ (1 :> <<BOOL_T, QB_T>>) @@ (2 :> <<>>) @@ (3 :> <<QB_T>>)
                 @@ (4 :> <<>>),
     order |-> (0 :> {}) @@ (1 :> {}) @@ (2 :> {Incoming}) @@ (3 :> {Outgoing})
                 @@ (4 :> {Incoming}),
     links |-> <<Link(1, 0, 2, 0), Link(1, 1, 3, 0), Link(3, 0, 2, 1), Link(3, 1, 4, 0)>>]

\* BOOL -> BOOL with a nested region: node 4 is a child of node 3 and reads the
\* Input twice over non-local edges
HugrNested ==
    [parent |-> (0 :> -1) @@ (1 :> 0) @@ (2 :> 0) @@ (3 :> 0) @@ (4 :> 3),
     children |-> <<1, 2, 3>>,
     ins |-> (0 :> <<>>) @@ (1 :> <<>>) @@ (2 :> <<BOOL_T>>) @@ (3 :> <<>>)
                 @@ (4 :> <<BOOL_T, BOOL_T>>),
     outs |-> (0 :> <<>>) @@ (1 :> <<BOOL_T>>) @@ (2 :> <<>>) @@ (3 :> <<BOOL_T>>)
                 @@ (4 :> <<>>),
     order |-> NoOrder(0..4),
     links |-> <<Link(1, 0, 4, 0), Link(1, 0, 4, 1), Link(3, 0, 2, 0)>>]

\* QB -> QB with the Input wired straight to the Output
HugrIdentity ==
    [parent |-> (0 :> -1) @@ (1 :> 0) @@ (2 :> 0),
     children |-> <<1, 2>>,
     ins |-> (0 :> <<>>) @@ (1 :> <<>>) @@ (2 :> <<QB_T>>),
     outs |-> (0 :> <<>>) @@ (1 :> <<QB_T>>) @@ (2 :> <<>>),
     order |-> NoOrder(0..2),
     links |-> <<Link(1, 0, 2, 0)>>]

\* BOOL -> BOOL: gate 3 reads the Input, and its output is copied first to node 4,
\* which has no outputs, and then to the Output
HugrFanout ==
    [parent |-> (0 :> -1) @@ [n \in 1..4 |-> 0],
     children |-> <<1, 2, 3, 4>>,
     ins |-> (0 :> <<>>) @@ (1 :> <<>>) @@ (2 :> <<BOOL_T>>) @@ (3 :> <<BOOL_T>>)
                 @@ (4 :> <<BOOL_T>>),
     outs |-> (0 :> <<>>) @@ (1 :> <<BOOL_T>>) @@ (2 :> <<>>) @@ (3 :> <<BOOL_T>>)
                 @@ (4 :> <<>>),
     order |-> NoOrder(0..4),
     links |-> <<Link(1, 0, 3, 0), Link(3, 0, 4, 0), Link(3, 0, 2, 0)>>]

\* (BOOL, QB) -> QB: the BOOL input is not used, the qubit goes through gate 3
HugrDiscard ==
    [parent |-> (0 :> -1) @@ [n \in 1..3 |-> 0],
     children |-> <<1, 2, 3>>,
     ins |-> (0 :> <<>>) @@ (1 :> <<>>) @@ (2 :> <<QB_T>>) @@ (3 :> <<QB_T>>),
     outs |-> (0 :> <<>>) @@ (1 :> <<BOOL_T, QB_T>>) @@ (2 :> <<>>) @@ (3 :> <<QB_T>>),
     order |-> NoOrder(0..3),
     links |-> <<Link(1, 1, 3, 0), Link(3, 0, 2, 0)>>]

Hugrs ==
    {HugrCx, HugrClassical, HugrChain, HugrMixed, HugrNested, HugrIdentity, HugrFanout,
     HugrDiscard}

(***************************************************************************)
(* portgraph: Subgraph::new_subgraph and the convexity check.              *)
(***************************************************************************)
\* whether link l is at one of the boundary ports
BoundaryLink(l, boundary) == \E p \in boundary : LinkAt(l, p)

RECURSIVE Component(_, _, _)
\* the nodes connected to `nodes` by links that are not at a boundary port
Component(h, boundary, nodes) ==
    LET inner == {l \in LinkSet(h) : ~BoundaryLink(l, boundary)}
        more == nodes \cup {l.dst : l \in {k \in inner : k.src \in nodes}}
                      \cup {l.src : l \in {k \in inner : k.dst \in nodes}}
    IN  IF more = nodes THEN nodes ELSE Component(h, boundary, more)

\* Subgraph::new_subgraph(pg, boundary).nodes_iter(): the nodes of the boundary ports
\* and everything connected to them once the boundary edges are removed
new_subgraph(h, boundary) ==
    Component(h, Range(boundary), {p.node : p \in Range(boundary)})

RECURSIVE ReachOutside(_, _, _)
\* the nodes outside `nodes` reached from `from` along directed links through outside nodes
ReachOutside(h, nodes, from) ==
    LET more == from \cup {l.dst : l \in {k \in LinkSet(h) : k.src \in from /\ k.dst \notin nodes}}
    IN  IF more = from THEN from ELSE ReachOutside(h, nodes, more)

\* subpg.is_convex_with_checker: no directed path leaves the node set and re-enters it
is_convex(h, nodes) ==
    LET left == {l.dst : l \in {k \in LinkSet(h) : k.src \in nodes /\ k.dst \notin nodes}}
    IN  ~ \E l \in LinkSet(h) : l.src \in ReachOutside(h, nodes, left) /\ l.dst \in nodes

(***************************************************************************)
(* validate_subgraph and the constructors.                                 *)
(***************************************************************************)
RECURSIVE Flatten(_)
\* inputs.iter().flatten()
Flatten(partitions) ==
    IF partitions = <<>> THEN <<>> ELSE Head(partitions) \o Flatten(Tail(partitions))

all_unique(s) == \A i, j \in 1..Len(s) : i # j => s[i] # s[j]

\* Whether a port is linked to a state order edge.
is_order_edge(h, p) == other_port_index(h, p.node, p.dir) = Some(p) /\ is_linked(h, p)

\* Whether node has a non-df linked port in the given direction.
has_other_edge(h, n, dir) ==
    other_port_index(h, n, dir) # None /\ is_linked(h, other_port_index(h, n, dir)[1])

\* mutant: the type of the first port, whatever the others
get_edge_type_FirstOnly(h, ports) ==
    IF ports = <<>> THEN None ELSE signature_get(h, ports[1])

\* The type of all ports; None if the array is empty, a port has no type or they differ
get_edge_type(h, ports) ==
    IF ports = <<>> THEN None
    ELSE LET edge_t == signature_get(h, ports[1])
         IN  IF edge_t = None THEN None
             ELSE IF \A i \in 1..Len(ports) : signature_get(h, ports[i]) = edge_t
                  THEN edge_t ELSE None

\* mutant: only the incoming boundary checked for direction
WrongDirection_InputsOnly(in_ports, out_ports) ==
    \E i \in 1..Len(Flatten(in_ports)) : Flatten(in_ports)[i].dir = Outgoing

\* Check inputs are incoming ports and outputs are outgoing ports
WrongDirection(in_ports, out_ports) ==
    \/ \E i \in 1..Len(Flatten(in_ports)) : Flatten(in_ports)[i].dir = Outgoing
    \/ \E i \in 1..Len(out_ports) : out_ports[i].dir = Incoming

\* mutant: the peers of the boundary ports not looked at
PeerInside_Never(h, nodes, ports_inside) == FALSE

\* ports_outside.any(|(n, _)| nodes.contains(&n))
PeerInside(h, nodes, ports_inside) ==
    \E i \in 1..Len(ports_inside) :
        \E q \in Range(linked_ports(h, ports_inside[i])) : q.node \in nodes

\* Check edge types are equal within partition and copyable if partition size > 1
PartitionsTyped(h, in_ports) ==
    \A k \in 1..Len(in_ports) :
        LET edge_t == get_edge_type(h, in_ports[k])
        IN  IF edge_t = None THEN FALSE
            ELSE Len(in_ports[k]) <= 1 \/ copyable(edge_t[1])

\* Whether a subgraph is valid: "Ok", the InvalidSubgraph error, or "panic" where
\* the code reaches unimplemented!
validate_subgraph(h, nodes, in_ports, out_ports) ==
    LET ports_inside == Flatten(in_ports) \o out_ports
    IN  IF nodes = {} THEN "EmptySubgraph"
        ELSE IF Cardinality({get_parent(h, n) : n \in nodes}) > 1 THEN "NoSharedParent"
        ELSE IF \E i \in 1..Len(ports_inside) : is_order_edge(h, ports_inside[i]) THEN "panic"
        ELSE IF WrongDirection(in_ports, out_ports) THEN "InvalidBoundary"
        ELSE IF \E i \in 1..Len(ports_inside) : ports_inside[i].node \notin nodes
             THEN "InvalidBoundary"
        ELSE IF PeerInside(h, nodes, ports_inside) THEN "NotConvex"
        ELSE IF ~all_unique(Flatten(in_ports)) THEN "InvalidBoundary"
        ELSE IF \E k \in 1..Len(in_ports) : in_ports[k] = <<>> THEN "InvalidBoundary"
        ELSE IF ~PartitionsTyped(h, in_ports) THEN "InvalidBoundary"
        ELSE "Ok"

\* what a constructor returns: Ok(Self {nodes, inputs, outputs}), Err(err) or a panic
Returned(by, status, err, nodes, in_ports, out_ports) ==
    [by |-> by, status |-> status, err |-> err,
     nodes |-> nodes, inputs |-> in_ports, outputs |-> out_ports]
SubgraphErr(by, v) ==
    Returned(by, IF v = "panic" THEN "panic" ELSE "Err", v, {}, <<>>, <<>>)

\* mutant: the convexity check left out
ConvexOrErr_Unchecked(h, nodes, ok) == ok

\* if !subpg.is_convex_with_checker(..) { return Err(NotConvex) }, else the subgraph
ConvexOrErr(h, nodes, ok) ==
    IF ~is_convex(h, nodes) THEN SubgraphErr("try_new", "NotConvex") ELSE ok

try_new_with_checker(in_ports, out_ports, h) ==
    LET nodes == new_subgraph(h, Flatten(in_ports) \o out_ports)
        valid == validate_subgraph(h, nodes, in_ports, out_ports)
    IN  IF valid # "Ok" THEN SubgraphErr("try_new", valid)
        ELSE ConvexOrErr(h, nodes, Returned("try_new", "Ok", "none", nodes, in_ports, out_ports))

\* dfg_graph.children(parent).skip(2)
DataflowNodes(h) == {h.children[i] : i \in 3..Len(h.children)}

\* the boundary of a dataflow region: per Input port its consumers, per Output port
\* its one producer; "panic" where the code panics
get_input_output_ports(h) ==
    LET inp == h.children[1]
        out == h.children[2]
    IN  IF has_other_edge(h, inp, Outgoing) \/ has_other_edge(h, out, Incoming)
        THEN [panic |-> TRUE, inputs |-> <<>>, outputs |-> <<>>]
        ELSE IF \E k \in 1..Len(h.ins[out]) :
                   Len(linked_ports(h, NodePort(out, Incoming, k - 1))) # 1
        THEN [panic |-> TRUE, inputs |-> <<>>, outputs |-> <<>>]
        ELSE [panic |-> FALSE,
              inputs |-> [k \in 1..Len(h.outs[inp]) |->
                             linked_ports(h, NodePort(inp, Outgoing, k - 1))],
              outputs |-> [k \in 1..Len(h.ins[out]) |->
                             linked_ports(h, NodePort(out, Incoming, k - 1))[1]]]

DataflowSubgraph(h) ==
    LET nodes == DataflowNodes(h)
        io == get_input_output_ports(h)
        valid == validate_subgraph(h, nodes, io.inputs, io.outputs)
    IN  IF io.panic THEN SubgraphErr("try_new_dataflow_subgraph", "panic")
        ELSE IF valid # "Ok" THEN SubgraphErr("try_new_dataflow_subgraph", valid)
        ELSE IF nodes = {} THEN SubgraphErr("try_new_dataflow_subgraph", "EmptySubgraph")
        ELSE Returned("try_new_dataflow_subgraph", "Ok", "none", nodes, io.inputs, io.outputs)

\* FunctionType::new(input, output) for a subgraph: per incoming partition the type
\* of its first port, per outgoing port its type; "panic" where an expect fails
signature(h, sub) ==
    IF \/ \E k \in 1..Len(sub.inputs) :
             sub.inputs[k] = <<>> \/ signature_get(h, sub.inputs[k][1]) = None
       \/ \E k \in 1..Len(sub.outputs) : signature_get(h, sub.outputs[k]) = None
    THEN [panic |-> TRUE, input |-> <<>>, output |-> <<>>]
    ELSE [panic |-> FALSE,
          input |-> [k \in 1..Len(sub.inputs) |-> signature_get(h, sub.inputs[k][1])[1]],
          output |-> [k \in 1..Len(sub.outputs) |-> signature_get(h, sub.outputs[k])[1]]]

(***************************************************************************)
(* SpecSub: a constructor called once, on each HUGR with each boundary of  *)
(* at most MaxBoundary ports of that HUGR.                                  *)
(***************************************************************************)
RECURSIVE SumSeq(_)
SumSeq(s) == IF s = <<>> THEN 0 ELSE Head(s) + SumSeq(Tail(s))

\* the lengths of the incoming partitions and of the outgoing list, within the bound
BoundaryShapes ==
    {sh \in (UNION {[1..k -> 0..MaxBoundary] : k \in 0..MaxBoundary}) \X (0..MaxBoundary) :
        SumSeq([i \in 1..Len(sh[1]) |-> IF sh[1][i] = 0 THEN 1 ELSE sh[1][i]]) + sh[2]
            <= MaxBoundary}

\* the ports `flat` cut into partitions of the lengths `lens`, the rest the outgoing list
CutBoundary(lens, flat) ==
    [incoming |-> [i \in 1..Len(lens) |->
                      SubSeq(flat, SumSeq(SubSeq(lens, 1, i - 1)) + 1,
                                   SumSeq(SubSeq(lens, 1, i)))],
     outgoing |-> SubSeq(flat, SumSeq(lens) + 1, Len(flat))]

Constructors == {"try_new", "try_new_dataflow_subgraph"}

InitSub ==
    /\ hugr = InitHugr
    /\ inputs = Some(CfgInputs)
    /\ ret = Ret("new", TRUE, "none", cfg_node)
    /\ nBranch = 0
    /\ succCalls = << >>
    /\ branchFailed = FALSE
    /\ entryOk = 0
    /\ entryNode = -1
    /\ budget = MaxCalls
    /\ scen = 0
    /\ view \in Hugrs
    /\ pc \in Constructors
    /\ IF pc = "try_new"
       THEN \E sh \in BoundaryShapes :
              \E flat \in [1..(SumSeq(sh[1]) + sh[2]) -> ViewPorts(view)] :
                 /\ incoming = CutBoundary(sh[1], flat).incoming
                 /\ outgoing = CutBoundary(sh[1], flat).outgoing
       ELSE incoming = <<>> /\ outgoing = <<>>
    /\ subgraph = <<>>
    /\ RepIdle /\ TcIdle /\ RegIdle /\ FnIdle

try_new ==
    /\ pc = "try_new"
    /\ subgraph' = try_new_with_checker(incoming, outgoing, view)
    /\ pc' = "returned"
    /\ UNCHANGED <<view, incoming, outgoing>>
    /\ UNCHANGED <<cfgvars, repvars, tcvars, regvars, fnvars>>

try_new_dataflow_subgraph ==
    /\ pc = "try_new_dataflow_subgraph"
    /\ subgraph' = DataflowSubgraph(view)
    /\ pc' = "returned"
    /\ UNCHANGED <<view, incoming, outgoing>>
    /\ UNCHANGED <<cfgvars, repvars, tcvars, regvars, fnvars>>

NextSub ==
    \/ try_new
    \/ try_new_dataflow_subgraph

SpecSub == InitSub /\ [][NextSub]_vars

(***************************************************************************)
(* Properties of the subgraph constructors.                                *)
(***************************************************************************)
\* the constructor has returned and validate_subgraph has been called
Validated ==
    /\ pc = "returned"
    /\ subgraph.by = "try_new_dataflow_subgraph" => ~get_input_output_ports(view).panic

\* the node set, incoming and outgoing boundary the call handed to validate_subgraph
CallNodes ==
    IF subgraph.by = "try_new" THEN new_subgraph(view, Flatten(incoming) \o outgoing)
    ELSE DataflowNodes(view)
CallInputs ==
    IF subgraph.by = "try_new" THEN incoming ELSE get_input_output_ports(view).inputs
CallOutputs ==
    IF subgraph.by = "try_new" THEN outgoing ELSE get_input_output_ports(view).outputs
CallPorts == Range(Flatten(CallInputs)) \cup Range(CallOutputs)

\* the steps of validation that come before the boundary is looked at
NonEmptySiblings(nodes) ==
    nodes # {} /\ \A n, m \in nodes : view.parent[n] = view.parent[m]
OrderEdgeAtBoundary ==
    \E p \in CallPorts :
        /\ p.offset >= Len(IF p.dir = Incoming THEN view.ins[p.node] ELSE view.outs[p.node])
        /\ \E l \in LinkSet(view) : LinkAt(l, p)

\* the ways a boundary port can be off: its direction, its node, its peers
BadDirection ==
    \/ \E p \in Range(Flatten(CallInputs)) : p.dir # Incoming
    \/ \E p \in Range(CallOutputs) : p.dir # Outgoing
OwnerOutside(nodes) == \E p \in CallPorts : p.node \notin nodes
LinkedInside(nodes) ==
    \E p \in CallPorts : \E l \in LinkSet(view) :
        LinkAt(l, p) /\ l.src \in nodes /\ l.dst \in nodes

\* the ways the incoming partitions can be off
NoType == [tag |-> "none", variants |-> <<>>]
PortType(p) ==
    LET row == IF p.dir = Incoming THEN view.ins[p.node] ELSE view.outs[p.node]
    IN  IF p.offset < Len(row) THEN row[p.offset + 1] ELSE NoType
DuplicateInput(parts) ==
    \E i, j \in 1..Len(Flatten(parts)) : i # j /\ Flatten(parts)[i] = Flatten(parts)[j]
EmptyPartition(parts) == \E k \in 1..Len(parts) : Len(parts[k]) = 0
MixedPartition(parts) ==
    \E k \in 1..Len(parts) : \E i, j \in 1..Len(parts[k]) :
        PortType(parts[k][i]) = NoType \/ PortType(parts[k][i]) # PortType(parts[k][j])
SharedLinear(parts) ==
    \E k \in 1..Len(parts) : Len(parts[k]) > 1 /\ PortType(parts[k][1]) = QB_T
BadPartition(parts) ==
    DuplicateInput(parts) \/ EmptyPartition(parts) \/ MixedPartition(parts) \/ SharedLinear(parts)

RECURSIVE Descendants(_, _)
\* the nodes reached from `from` along one or more directed links
Descendants(h, from) ==
    LET more == from \cup {l.dst : l \in {k \in LinkSet(h) : k.src \in from}}
    IN  IF more = from THEN from ELSE Descendants(h, more)
After(h, n) == Descendants(h, {l.dst : l \in {k \in LinkSet(h) : k.src = n}})

\* some directed path leaves the node set and re-enters it
LeavesAndReenters(h, nodes) ==
    \E u \in nodes : \E w \in After(h, u) \ nodes : After(h, w) \cap nodes # {}

\* C7: whenever try_new returns Ok, the recorded boundary is exactly the cut of
\* the node set: every link from outside to inside is at a port of the incoming
\* boundary, every link from inside to outside is at a port of the outgoing
\* boundary, the links at incoming boundary ports enter the node set and those at
\* outgoing boundary ports leave it, so none joins two nodes of the subgraph.
C7_BoundaryIsCut ==
    (pc = "returned" /\ subgraph.by = "try_new" /\ subgraph.status = "Ok") =>
        LET nodes == subgraph.nodes
            b_in == Range(Flatten(subgraph.inputs))
            b_out == Range(subgraph.outputs)
        IN  \A l \in LinkSet(view) :
              /\ (l.src \notin nodes /\ l.dst \in nodes)
                    => NodePort(l.dst, Incoming, l.dport) \in b_in
              /\ (l.src \in nodes /\ l.dst \notin nodes)
                    => NodePort(l.src, Outgoing, l.sport) \in b_out
              /\ (\E p \in b_in : LinkAt(l, p)) => (l.src \notin nodes /\ l.dst \in nodes)
              /\ (\E p \in b_out : LinkAt(l, p)) => (l.src \in nodes /\ l.dst \notin nodes)

\* try_new accepts gate 4 of the chain, cut out by its input and its output
C7_Witness ==
    /\ pc = "returned" /\ subgraph.by = "try_new" /\ subgraph.status = "Ok"
    /\ view = HugrChain
    /\ subgraph.nodes = {4}
    /\ subgraph.inputs = << <<NodePort(4, Incoming, 0)>> >>
    /\ subgraph.outputs = <<NodePort(4, Outgoing, 0)>>

\* C8 as stated: whenever try_new is called with a boundary whose node set is not
\* convex (some directed path leaves it and re-enters it), the result is
\* Err(NotConvex).
C8_NonConvexGivesNotConvex ==
    (pc = "returned" /\ subgraph.by = "try_new" /\ LeavesAndReenters(view, CallNodes)) =>
        (subgraph.status = "Err" /\ subgraph.err = "NotConvex")

\* C8 amended: try_new never returns Ok for a node set that is not convex; the
\* result is Err(NotConvex) when the nodes share one parent, no boundary port is
\* a linked order port, the boundary ports have the right direction and the
\* incoming partitions are valid, and otherwise validation has answered first
\* with NoSharedParent or InvalidBoundary or has panicked.
C8_NonConvexNeverOk ==
    (pc = "returned" /\ subgraph.by = "try_new" /\ LeavesAndReenters(view, CallNodes)) =>
        /\ subgraph.status # "Ok"
        /\ subgraph.err \in {"NotConvex", "NoSharedParent", "InvalidBoundary", "panic"}
        /\ (NonEmptySiblings(CallNodes) /\ ~OrderEdgeAtBoundary /\ ~BadDirection
              /\ ~BadPartition(incoming))
               => (subgraph.status = "Err" /\ subgraph.err = "NotConvex")
        /\ subgraph.err = "NoSharedParent" => ~NonEmptySiblings(CallNodes)
        /\ subgraph.err = "InvalidBoundary" => (BadDirection \/ BadPartition(incoming))
        /\ subgraph.err = "panic" => OrderEdgeAtBoundary

\* gates 3 and 5 of the chain without gate 4 between them: the boundary passes
\* validation and the convexity check answers
C8_Witness ==
    /\ pc = "returned" /\ subgraph.by = "try_new"
    /\ view = HugrChain
    /\ incoming = << <<NodePort(5, Incoming, 0)>> >>
    /\ outgoing = <<NodePort(3, Outgoing, 0)>>
    /\ CallNodes = {1, 2, 3, 5}
    /\ LeavesAndReenters(view, CallNodes)
    /\ ~LinkedInside(CallNodes)
    /\ subgraph.status = "Err" /\ subgraph.err = "NotConvex"

\* C9 as stated: validation answers InvalidBoundary for every incoming boundary
\* in which a port appears more than once, a partition is empty, the ports of a
\* partition do not share one dataflow type, or a partition of several ports has
\* a type that cannot be copied; an accepted boundary has none of these.
C9_BadPartitionGivesInvalidBoundary ==
    Validated =>
        /\ BadPartition(CallInputs) => (subgraph.status = "Err" /\ subgraph.err = "InvalidBoundary")
        /\ subgraph.status = "Ok" => ~BadPartition(subgraph.inputs)

\* C9 amended: such an incoming boundary is never accepted, and the answer is
\* InvalidBoundary when the node set is non-empty with one shared parent, no
\* boundary port is a linked order port and no boundary port is linked to a node
\* of the subgraph; otherwise an earlier step of validation has answered
\* (EmptySubgraph, NoSharedParent, NotConvex, or a panic).
C9_BadPartitionNeverOk ==
    Validated =>
        /\ BadPartition(CallInputs) => subgraph.status # "Ok"
        /\ (BadPartition(CallInputs) /\ NonEmptySiblings(CallNodes) /\ ~OrderEdgeAtBoundary
              /\ ~LinkedInside(CallNodes))
               => (subgraph.status = "Err" /\ subgraph.err = "InvalidBoundary")
        /\ subgraph.status = "Ok" => ~BadPartition(subgraph.inputs)

\* the two qubit inputs of the cx gate given as one partition: every earlier step
\* of validation passes and the partition is refused
C9_Witness ==
    /\ Validated /\ subgraph.by = "try_new"
    /\ view = HugrCx
    /\ incoming = << <<NodePort(3, Incoming, 0), NodePort(3, Incoming, 1)>> >>
    /\ SharedLinear(CallInputs)
    /\ ~DuplicateInput(CallInputs) /\ ~EmptyPartition(CallInputs) /\ ~MixedPartition(CallInputs)
    /\ NonEmptySiblings(CallNodes) /\ ~BadDirection /\ ~LinkedInside(CallNodes)
    /\ subgraph.status = "Err" /\ subgraph.err = "InvalidBoundary"

\* C10 as stated: validation answers InvalidBoundary for a boundary port of the
\* wrong direction or whose node is not in the subgraph, and NotConvex for a
\* boundary port linked to a peer inside the subgraph; in an accepted subgraph
\* each boundary port's node is inside and each linked peer outside.
C10_BadPortGivesItsError ==
    Validated =>
        /\ (BadDirection \/ OwnerOutside(CallNodes))
               => (subgraph.status = "Err" /\ subgraph.err = "InvalidBoundary")
        /\ LinkedInside(CallNodes) => (subgraph.status = "Err" /\ subgraph.err = "NotConvex")
        /\ subgraph.status = "Ok" => (~OwnerOutside(subgraph.nodes) /\ ~LinkedInside(subgraph.nodes))

\* C10 amended: a boundary with such a port is never accepted, so in an accepted
\* subgraph each boundary port's node is inside and each linked peer outside;
\* when the node set is non-empty with one shared parent and no boundary port is
\* a linked order port, the answer is InvalidBoundary for a port of the wrong
\* direction or outside the subgraph, and NotConvex for a port linked to a peer
\* inside when every port has the right direction and its node inside.
C10_BadPortNeverOk ==
    Validated =>
        /\ (BadDirection \/ OwnerOutside(CallNodes) \/ LinkedInside(CallNodes))
               => subgraph.status # "Ok"
        /\ (NonEmptySiblings(CallNodes) /\ ~OrderEdgeAtBoundary
              /\ (BadDirection \/ OwnerOutside(CallNodes)))
               => (subgraph.status = "Err" /\ subgraph.err = "InvalidBoundary")
        /\ (NonEmptySiblings(CallNodes) /\ ~OrderEdgeAtBoundary
              /\ ~BadDirection /\ ~OwnerOutside(CallNodes) /\ LinkedInside(CallNodes))
               => (subgraph.status = "Err" /\ subgraph.err = "NotConvex")
        /\ subgraph.status = "Ok"
               => (/\ subgraph.nodes = CallNodes
                   /\ subgraph.inputs = CallInputs /\ subgraph.outputs = CallOutputs
                   /\ ~BadDirection
                   /\ ~OwnerOutside(subgraph.nodes) /\ ~LinkedInside(subgraph.nodes))

\* the dataflow subgraph of a region whose Input is wired to its Output: the
\* Output's port is in the incoming boundary and the Output is not in the subgraph
C10_Witness ==
    /\ Validated /\ subgraph.by = "try_new_dataflow_subgraph"
    /\ view = HugrMixed
    /\ CallNodes = {3, 4}
    /\ NodePort(2, Incoming, 0) \in Range(Flatten(CallInputs))
    /\ OwnerOutside(CallNodes) /\ ~BadDirection /\ ~OrderEdgeAtBoundary
    /\ subgraph.status = "Err" /\ subgraph.err = "InvalidBoundary"

\* an outgoing port of linear type listed more than once in the outgoing boundary
RepeatedLinearOutput(out_ports) ==
    \E i, j \in 1..Len(out_ports) :
        /\ i # j /\ out_ports[i] = out_ports[j]
        /\ out_ports[i].dir = Outgoing /\ PortType(out_ports[i]) = QB_T

\* C11: try_new rejects every outgoing boundary that lists the same outgoing port
\* of non-copyable (linear) type more than once: such a call never returns Ok.
C11_LinearOutputNotRepeated ==
    (pc = "returned" /\ subgraph.by = "try_new" /\ RepeatedLinearOutput(outgoing)) =>
        subgraph.status # "Ok"

(***************************************************************************)
(* try_from_nodes, and SpecRep: a subgraph made from a node list or from a *)
(* dataflow region.                                                        *)
(***************************************************************************)
\* hugr.node_inputs(n) / hugr.node_outputs(n): every port of n in a direction
node_ports(h, n, dir) == [k \in 1..num_ports(h, n, dir) |-> NodePort(n, dir, k - 1)]

RECURSIVE FlatPorts(_, _, _)
\* nodes.iter().flat_map(|&n| hugr.node_inputs(n).map(move |p| (n, p)))
FlatPorts(h, node_list, dir) ==
    IF node_list = <<>> THEN <<>>
    ELSE node_ports(h, Head(node_list), dir) \o FlatPorts(h, Tail(node_list), dir)

\* let (in_n, _) = hugr.linked_ports(n, p).next().unwrap(); !nodes_set.contains(&in_n)
OutsideTarget(h, nodes_set, p) == linked_ports(h, p)[1].node \notin nodes_set

\* the boundary try_from_nodes derives from the nodes; "panic" where exactly_one fails
DerivedBoundary(node_list, h) ==
    LET nodes_set == Range(node_list)
        incoming_edges == FlatPorts(h, node_list, Incoming)
        outgoing_edges == FlatPorts(h, node_list, Outgoing)
        in_kept == SelectSeq(incoming_edges,
                       LAMBDA p : is_linked(h, p) /\ linked_ports(h, p)[1].node \notin nodes_set)
        out_kept == SelectSeq(outgoing_edges,
                       LAMBDA p : is_linked(h, p) /\ OutsideTarget(h, nodes_set, p))
    IN  IF \E i \in 1..Len(incoming_edges) : Len(linked_ports(h, incoming_edges[i])) > 1
        THEN [panic |-> TRUE, inputs |-> <<>>, outputs |-> <<>>]
        ELSE [panic |-> FALSE,
              inputs |-> [i \in 1..Len(in_kept) |-> <<in_kept[i]>>],
              outputs |-> out_kept]

\* bound on the length of the node list given to try_from_nodes
MaxNodes == 3

NodeLists(h) == UNION {[1..k -> ViewNodes(h)] : k \in 0..MaxNodes}

InitRep ==
    /\ hugr = InitHugr
    /\ inputs = Some(CfgInputs)
    /\ ret = Ret("new", TRUE, "none", cfg_node)
    /\ nBranch = 0
    /\ succCalls = << >>
    /\ branchFailed = FALSE
    /\ entryOk = 0
    /\ entryNode = -1
    /\ budget = MaxCalls
    /\ scen = 0
    /\ view \in Hugrs
    /\ pc \in {"try_from_nodes", "try_new_dataflow_subgraph"}
    /\ IF pc = "try_from_nodes" THEN nodes_arg \in NodeLists(view) ELSE nodes_arg = <<>>
    /\ incoming = <<>> /\ outgoing = <<>>
    /\ subgraph = <<>>
    /\ replacement = <<>> /\ rewrite = <<>>
    /\ TcIdle /\ RegIdle /\ FnIdle

\* try_from_nodes(nodes, hugr): the derived boundary is handed to try_new
try_from_nodes ==
    /\ pc = "try_from_nodes"
    /\ LET b == DerivedBoundary(nodes_arg, view)
       IN  /\ incoming' = b.inputs
           /\ outgoing' = b.outputs
           /\ subgraph' = IF b.panic THEN SubgraphErr("try_from_nodes", "panic")
                          ELSE [try_new_with_checker(b.inputs, b.outputs, view)
                                    EXCEPT !.by = "try_from_nodes"]
    /\ pc' = "returned"
    /\ UNCHANGED <<view, nodes_arg, replacement, rewrite>>
    /\ UNCHANGED <<cfgvars, tcvars, regvars, fnvars>>

(***************************************************************************)
(* The replacement HUGRs: as a HugrView, with the tag of the root op and,  *)
(* as ports of the root (node 0), the signature of the root op.            *)
(***************************************************************************)
\* tests::construct_simple_replacement: the empty DFG (QB, QB) -> (QB, QB)
RepEmptyQQ ==
    [root_tag |-> "Dfg",
     parent |-> (0 :> -1) @@ (1 :> 0) @@ (2 :> 0),
     children |-> <<1, 2>>,
     ins |-> (0 :> <<QB_T, QB_T>>) @@ (1 :> <<>>) @@ (2 :> <<QB_T, QB_T>>),
     outs |-> (0 :> <<QB_T, QB_T>>) @@ (1 :> <<QB_T, QB_T>>) @@ (2 :> <<>>),
     order |-> NoOrder(0..2),
     links |-> <<Link(1, 0, 2, 0), Link(1, 1, 2, 1)>>]

\* tests::construct_simple_replacement_invalid_signature: the empty DFG QB -> QB
RepEmptyQ ==
    [root_tag |-> "Dfg",
     parent |-> (0 :> -1) @@ (1 :> 0) @@ (2 :> 0),
     children |-> <<1, 2>>,
     ins |-> (0 :> <<QB_T>>) @@ (1 :> <<>>) @@ (2 :> <<QB_T>>),
     outs |-> (0 :> <<QB_T>>) @@ (1 :> <<QB_T>>) @@ (2 :> <<>>),
     order |-> NoOrder(0..2),
     links |-> <<Link(1, 0, 2, 0)>>]

\* a DFG QB -> QB holding one gate (node 3)
RepGateQ ==
    [root_tag |-> "Dfg",
     parent |-> (0 :> -1) @@ [n \in 1..3 |-> 0],
     children |-> <<1, 2, 3>>,
     ins |-> (0 :> <<QB_T>>) @@ (1 :> <<>>) @@ (2 :> <<QB_T>>) @@ (3 :> <<QB_T>>),
     outs |-> (0 :> <<QB_T>>) @@ (1 :> <<QB_T>>) @@ (2 :> <<>>) @@ (3 :> <<QB_T>>),
     order |-> NoOrder(0..3),
     links |-> <<Link(1, 0, 3, 0), Link(3, 0, 2, 0)>>]

\* a DFG BOOL -> BOOL whose input is copied to both inputs of an and gate (node 3)
RepAnd ==
    [root_tag |-> "Dfg",
     parent |-> (0 :> -1) @@ [n \in 1..3 |-> 0],
     children |-> <<1, 2, 3>>,
     ins |-> (0 :> <<BOOL_T>>) @@ (1 :> <<>>) @@ (2 :> <<BOOL_T>>) @@ (3 :> <<BOOL_T, BOOL_T>>),
     outs |-> (0 :> <<BOOL_T>>) @@ (1 :> <<BOOL_T>>) @@ (2 :> <<>>) @@ (3 :> <<BOOL_T>>),
     order |-> NoOrder(0..3),
     links |-> <<Link(1, 0, 3, 0), Link(1, 0, 3, 1), Link(3, 0, 2, 0)>>]

\* the empty (QB, QB) -> (QB, QB) graph under a function definition, not a DFG
RepFunc == [RepEmptyQQ EXCEPT !.root_tag = "FuncDefn"]

\* a module root without children
RepModule ==
    [root_tag |-> "Module",
     parent |-> (0 :> -1),
     children |-> <<>>,
     ins |-> (0 :> <<>>),
     outs |-> (0 :> <<>>),
     order |-> NoOrder({0}),
     links |-> <<>>]

\* a DFG QB -> QB with an Input child and nothing else
RepBare ==
    [root_tag |-> "Dfg",
     parent |-> (0 :> -1) @@ (1 :> 0),
     children |-> <<1>>,
     ins |-> (0 :> <<QB_T>>) @@ (1 :> <<>>),
     outs |-> (0 :> <<QB_T>>) @@ (1 :> <<QB_T>>),
     order |-> NoOrder(0..1),
     links |-> <<>>]

\* RepGateQ with a state order edge from the Input to the gate
RepOrder ==
    [RepGateQ EXCEPT !.order = (0 :> {}) @@ (1 :> {Outgoing}) @@ (2 :> {}) @@ (3 :> {Incoming}),
                     !.links = <<Link(1, 0, 3, 0), Link(3, 0, 2, 0), Link(1, 1, 3, 1)>>]

\* a DFG () -> QB holding one node (3) that gives out a fresh qubit
RepAlloc ==
    [root_tag |-> "Dfg",
     parent |-> (0 :> -1) @@ [n \in 1..3 |-> 0],
     children |-> <<1, 2, 3>>,
     ins |-> (0 :> <<>>) @@ (1 :> <<>>) @@ (2 :> <<QB_T>>) @@ (3 :> <<>>),
     outs |-> (0 :> <<QB_T>>) @@ (1 :> <<>>) @@ (2 :> <<>>) @@ (3 :> <<QB_T>>),
     order |-> NoOrder(0..3),
     links |-> <<Link(3, 0, 2, 0)>>]

Replacements ==
    {RepEmptyQQ, RepEmptyQ, RepGateQ, RepAnd, RepFunc, RepModule, RepBare, RepOrder, RepAlloc}

(***************************************************************************)
(* create_simple_replacement.                                              *)
(***************************************************************************)
\* dfg_optype.signature(): the signature of the root op of the replacement
root_signature(rep) == [input |-> rep.ins[0], output |-> rep.outs[0]]

\* mutant: the children looked at before the tag of the root
ReplacementError_ParentFirst(sub, h, rep) ==
    IF Len(rep.children) < 2 THEN "InvalidDataflowParent"
    ELSE IF rep.root_tag # "Dfg" THEN "InvalidDataflowGraph"
    ELSE IF signature(h, sub).panic THEN "panic"
    ELSE IF root_signature(rep) # [input |-> signature(h, sub).input,
                                   output |-> signature(h, sub).output]
         THEN "InvalidSignature"
    ELSE "none"

\* the three checks of the replacement, in the order of the code
ReplacementError(sub, h, rep) ==
    IF rep.root_tag # "Dfg" THEN "InvalidDataflowGraph"
    ELSE IF Len(rep.children) < 2 THEN "InvalidDataflowParent"
    ELSE IF signature(h, sub).panic THEN "panic"
    ELSE IF root_signature(rep) # [input |-> signature(h, sub).input,
                                   output |-> signature(h, sub).output]
         THEN "InvalidSignature"
    ELSE "none"

\* the ports of node n in a direction that have a type, and those that have none
DataflowPorts(rep, n, dir) ==
    SelectSeq(node_ports(rep, n, dir), LAMBDA p : signature_get(rep, p) # None)
OrderPorts(rep, n, dir) ==
    SelectSeq(node_ports(rep, n, dir), LAMBDA p : signature_get(rep, p) = None)

\* mutant: each replacement target paired with the first host port of the partition only
NuInp_FirstOnly(sub, rep, rep_inputs) ==
    UNION {{<<q, sub.inputs[i][1]>> : q \in Range(linked_ports(rep, rep_inputs[i]))} :
              i \in 1..Len(rep_inputs)}

\* nu_inp: for the i-th Input port and the i-th partition, every target of the port
\* in the replacement paired with every port of the partition
NuInp(sub, rep, rep_inputs) ==
    UNION {Range(linked_ports(rep, rep_inputs[i])) \X Range(sub.inputs[i]) :
              i \in 1..Len(rep_inputs)}

\* nu_out: for the j-th outgoing port and the j-th Output port, every host port
\* linked to the outgoing port paired with the Output port
NuOut(sub, h, rep_outputs) ==
    UNION {{<<q, rep_outputs[j].offset>> : q \in Range(linked_ports(h, sub.outputs[j]))} :
              j \in 1..Len(rep_outputs)}

\* what create_simple_replacement returns
Rewritten(status, err, sub, rep, nu_inp, nu_out) ==
    [status |-> status, err |-> err, subgraph |-> sub, replacement |-> rep,
     nu_inp |-> nu_inp, nu_out |-> nu_out]
RewriteErr(e) ==
    Rewritten(IF e = "panic" THEN "panic" ELSE "Err", e, <<>>, <<>>, {}, {})

SimpleReplacementFor(sub, h, rep) ==
    LET e == ReplacementError(sub, h, rep)
    IN  IF e # "none" THEN RewriteErr(e)
        ELSE LET rep_input == rep.children[1]
                 rep_output == rep.children[2]
                 rep_inputs == DataflowPorts(rep, rep_input, Outgoing)
                 rep_outputs == DataflowPorts(rep, rep_output, Incoming)
                 order_ports == OrderPorts(rep, rep_input, Outgoing)
                                    \o OrderPorts(rep, rep_output, Incoming)
             IN  IF \E i \in 1..Len(order_ports) : is_order_edge(rep, order_ports[i])
                 THEN RewriteErr("panic")
                 ELSE IF Len(rep_inputs) # Len(sub.inputs) \/ Len(rep_outputs) # Len(sub.outputs)
                 THEN RewriteErr("panic")
                 ELSE Rewritten("Ok", "none", sub, rep,
                                NuInp(sub, rep, rep_inputs), NuOut(sub, h, rep_outputs))

\* self.create_simple_replacement(hugr, replacement) on a subgraph a constructor returned
create_simple_replacement(rep) ==
    /\ pc = "returned"
    /\ subgraph.status = "Ok"
    /\ replacement' = rep
    /\ rewrite' = SimpleReplacementFor(subgraph, view, rep)
    /\ pc' = "created"
    /\ UNCHANGED <<view, incoming, outgoing, subgraph, nodes_arg>>
    /\ UNCHANGED <<cfgvars, tcvars, regvars, fnvars>>

(***************************************************************************)
(* apply_rewrite of a SimpleReplacement: the children of the replacement   *)
(* other than its Input and Output become children of the subgraph's       *)
(* parent, the boundary edges are rewired along nu_inp and nu_out, and the *)
(* nodes of the subgraph are removed.                                      *)
(***************************************************************************)
MaxOf(S) == CHOOSE x \in S : \A y \in S : y <= x

RECURSIVE SetToSeq(_)
SetToSeq(S) ==
    IF S = {} THEN <<>> ELSE LET x == CHOOSE y \in S : TRUE IN <<x>> \o SetToSeq(S \ {x})

\* the children of the replacement root other than Input and Output
RepInner(rep) == {rep.children[i] : i \in 3..Len(rep.children)}

\* the node of the host that stands for child n of the replacement
NewId(h, rep, n) ==
    MaxOf(ViewNodes(h)) + (CHOOSE i \in 3..Len(rep.children) : rep.children[i] = n) - 2

\* the links into incoming port p
LinksInto(h, p) == {l \in LinkSet(h) : l.dst = p.node /\ l.dport = p.offset}

\* the links the rewrite adds
RewiredLinks(h, rw) ==
    LET rep == rw.replacement
        inner == RepInner(rep)
        rep_in == rep.children[1]
        rep_out == rep.children[2]
    IN  {Link(NewId(h, rep, l.src), l.sport, NewId(h, rep, l.dst), l.dport) :
            l \in {m \in LinkSet(rep) : m.src \in inner /\ m.dst \in inner}}
        \cup UNION {{Link(l.src, l.sport, NewId(h, rep, pr[1].node), pr[1].offset) :
                        l \in LinksInto(h, pr[2])} :
                    pr \in {q \in rw.nu_inp : q[1].node \in inner}}
        \cup UNION {UNION {IF l.src \in inner
                           THEN {Link(NewId(h, rep, l.src), l.sport, pr[1].node, pr[1].offset)}
                           ELSE UNION {{Link(k.src, k.sport, pr[1].node, pr[1].offset) :
                                           k \in LinksInto(h, q[2])} :
                                       q \in {r \in rw.nu_inp :
                                                 r[1] = NodePort(rep_out, Incoming, pr[2])}} :
                           l \in LinksInto(rep, NodePort(rep_out, Incoming, pr[2]))} :
                    pr \in rw.nu_out}

\* mutant: the nodes of the subgraph left in place
apply_rewrite_KeepNodes(h, rw) == h

apply_rewrite(h, rw) ==
    LET rep == rw.replacement
        removed == rw.subgraph.nodes
        region == h.parent[CHOOSE n \in removed : TRUE]
        inner == RepInner(rep)
        added == {NewId(h, rep, n) : n \in inner}
        old == CHOOSE f \in [added -> inner] : \A m \in added : NewId(h, rep, f[m]) = m
        nodes == (ViewNodes(h) \ removed) \cup added
        kept == SelectSeq(h.links, LAMBDA l : l.src \notin removed /\ l.dst \notin removed)
    IN  [parent |-> [n \in nodes |-> IF n \in added THEN region ELSE h.parent[n]],
         children |-> SelectSeq(h.children, LAMBDA n : n \notin removed)
                          \o (IF region = 0
                              THEN [i \in 1..(Len(rep.children) - 2) |->
                                       NewId(h, rep, rep.children[i + 2])]
                              ELSE <<>>),
         ins |-> [n \in nodes |-> IF n \in added THEN rep.ins[old[n]] ELSE h.ins[n]],
         outs |-> [n \in nodes |-> IF n \in added THEN rep.outs[old[n]] ELSE h.outs[n]],
         order |-> [n \in nodes |-> IF n \in added THEN rep.order[old[n]] ELSE h.order[n]],
         links |-> kept \o SetToSeq(RewiredLinks(h, rw))]

\* hugr.apply_rewrite(rewrite)
apply ==
    /\ pc = "created"
    /\ rewrite.status = "Ok"
    /\ view' = apply_rewrite(view, rewrite)
    /\ pc' = "applied"
    /\ UNCHANGED <<incoming, outgoing, subgraph, nodes_arg, replacement, rewrite>>
    /\ UNCHANGED <<cfgvars, tcvars, regvars, fnvars>>

\* validation of a dataflow region: the Input (node 1) and the Output (node 2) are
\* the first two children, every link joins two ports of one type, every incoming
\* dataflow port has one link, every outgoing port of linear type has one link,
\* and no node is reached from itself
ValidRegion(h) ==
    /\ Len(h.children) >= 2 /\ h.children[1] = 1 /\ h.children[2] = 2
    /\ Range(h.children) = {n \in ViewNodes(h) : h.parent[n] = 0}
    /\ \A l \in LinkSet(h) :
          /\ l.src \in ViewNodes(h) /\ l.dst \in ViewNodes(h)
          /\ l.sport < num_ports(h, l.src, Outgoing) /\ l.dport < num_ports(h, l.dst, Incoming)
          /\ signature_get(h, NodePort(l.src, Outgoing, l.sport))
               = signature_get(h, NodePort(l.dst, Incoming, l.dport))
    /\ \A n \in ViewNodes(h) :
          /\ \A k \in 1..Len(h.ins[n]) :
                n # 0 => Len(linked_ports(h, NodePort(n, Incoming, k - 1))) = 1
          /\ \A k \in 1..Len(h.outs[n]) :
                (n # 0 /\ ~copyable(h.outs[n][k]))
                    => Len(linked_ports(h, NodePort(n, Outgoing, k - 1))) = 1
          /\ n \notin After(h, n)

NextRep ==
    \/ try_from_nodes
    \/ try_new_dataflow_subgraph
    \/ \E rep \in Replacements : create_simple_replacement(rep)
    \/ apply

SpecRep == InitRep /\ [][NextRep]_vars

\* the nodes given to try_from_nodes, and whether a port is linked across their edge
GivenNodes == Range(nodes_arg)
EntersGiven(p) == \E l \in LinkSet(view) : LinkAt(l, p) /\ l.src \notin GivenNodes
LeavesGiven(p) == \E l \in LinkSet(view) : LinkAt(l, p) /\ l.dst \notin GivenNodes

\* C13: the boundary try_from_nodes derives and hands to try_new has, as incoming
\* boundary, one single-port partition for each linked incoming port of the given
\* nodes whose source is outside them, in node order then port order, and as
\* outgoing boundary exactly the outgoing ports of the given nodes with at least
\* one linked target outside them.
C13_BoundaryFromNodes ==
    (pc = "returned" /\ subgraph.by = "try_from_nodes" /\ subgraph.status # "panic") =>
        /\ incoming = [i \in 1..Len(SelectSeq(FlatPorts(view, nodes_arg, Incoming), EntersGiven))
                          |-> <<SelectSeq(FlatPorts(view, nodes_arg, Incoming), EntersGiven)[i]>>]
        /\ Range(outgoing) =
               {p \in Range(FlatPorts(view, nodes_arg, Outgoing)) : LeavesGiven(p)}

(***************************************************************************)
(* typecheck_const (src/src/hugr/typecheck.rs).                            *)
(*                                                                         *)
(* Integer widths are scaled down: the valid widths are 2^a for a in       *)
(* 0..MaxWidthLog2 (0..7 in the program), the largest of them is           *)
(* HUGR_MAX_INT_WIDTH, and HugrIntValueStore has that many bits.           *)
(***************************************************************************)
\* the largest a for which 2^a is a valid width
MaxWidthLog2 == 3
\* the longest type row and tuple
MaxRow == 2

HUGR_MAX_INT_WIDTH == 2 ^ MaxWidthLog2
\* HugrIntValueStore::MAX
ValueStoreMax == 2 ^ HUGR_MAX_INT_WIDTH - 1
\* HugrIntWidthStore::pow(2, a) for a in (0..8)
VALID_WIDTHS == {2 ^ a : a \in 0..MaxWidthLog2}

\* ClassicType
TypeOf(k, width, row) == [k |-> k, width |-> width, row |-> row]
IntT(w) == TypeOf("Int", w, <<>>)
F64T == TypeOf("F64", 0, <<>>)
StringT == TypeOf("String", 0, <<>>)
VariableT == TypeOf("Variable", 0, <<>>)
TupleT(row) == TypeOf("Tuple", 0, row)
SumT(row) == TypeOf("Sum", 0, row)

\* ConstValue; the payload of a Sum is a sequence of one value
ValueOf(k, v, width, xs, tag, variants, payload) ==
    [k |-> k, value |-> v, width |-> width, xs |-> xs, tag |-> tag,
     variants |-> variants, val |-> payload]
IntV(v, w) == ValueOf("Int", v, w, <<>>, 0, <<>>, <<>>)
F64V == ValueOf("F64", 0, 0, <<>>, 0, <<>>, <<>>)
TupleV(xs) == ValueOf("Tuple", 0, 0, xs, 0, <<>>, <<>>)
SumV(tag, variants, payload) == ValueOf("Sum", 0, 0, <<>>, tag, variants, <<payload>>)

\* Result<(), ConstTypeError>, or a panic
TcOk == [status |-> "Ok", err |-> "none", args |-> <<>>]
TcErr(e, args) == [status |-> "Err", err |-> e, args |-> args]
TcPanic == [status |-> "panic", err |-> "panic", args |-> <<>>]

\* mutant: membership in the valid widths tested before the maximum
check_valid_width_InvalidFirst(width) ==
    IF width \notin VALID_WIDTHS THEN TcErr("IntWidthInvalid", <<width>>)
    ELSE IF width > HUGR_MAX_INT_WIDTH THEN TcErr("IntWidthTooLarge", <<width>>)
    ELSE TcOk

\* Per the spec, valid widths for integers are 2^n for all n in [0,7]
check_valid_width(width) ==
    IF width > HUGR_MAX_INT_WIDTH THEN TcErr("IntWidthTooLarge", <<width>>)
    ELSE IF width \in VALID_WIDTHS THEN TcOk
    ELSE TcErr("IntWidthInvalid", <<width>>)

\* HugrIntValueStore::pow(2, width): None where the power does not fit the store
checked_pow2(width) == IF 2 ^ width > ValueStoreMax THEN None ELSE Some(2 ^ width)

\* mutant: the bound computed as a power also at the maximum width
max_value_AlwaysPow(width) ==
    IF checked_pow2(width) = None THEN None ELSE Some(checked_pow2(width)[1] - 1)

\* the largest value of width `width`, None where computing it overflows
max_value(width) ==
    IF width = HUGR_MAX_INT_WIDTH THEN Some(ValueStoreMax)
    ELSE IF checked_pow2(width) = None THEN None ELSE Some(checked_pow2(width)[1] - 1)

\* the match arm for an integer type and an integer constant
typecheck_int(exp_width, value_, width) ==
    IF check_valid_width(exp_width) # TcOk THEN check_valid_width(exp_width)
    ELSE IF check_valid_width(width) # TcOk THEN check_valid_width(width)
    ELSE IF exp_width = width
         THEN IF max_value(width) = None THEN TcPanic
              ELSE IF value_ <= max_value(width)[1] THEN TcOk
              ELSE TcErr("IntTooLarge", <<width, value_>>)
    ELSE TcErr("IntWidthMismatch", <<exp_width, width>>)

\* mutant: the result of the last element that does not check
FirstFailure_Last(results) ==
    IF \A i \in 1..Len(results) : results[i] = TcOk THEN TcOk
    ELSE results[CHOOSE i \in 1..Len(results) :
                    results[i] # TcOk /\ \A j \in (i + 1)..Len(results) : results[j] = TcOk]

\* for (ty, tm) in row.iter().zip(xs.iter()) { typecheck_const(ty, tm)? } Ok(())
FirstFailure(results) ==
    IF \A i \in 1..Len(results) : results[i] = TcOk THEN TcOk
    ELSE results[CHOOSE i \in 1..Len(results) :
                    results[i] # TcOk /\ \A j \in 1..(i - 1) : results[j] = TcOk]

\* if tag > &row.len()
SumTagInvalid(tag, len) == tag > len

RECURSIVE typecheck_const(_, _)
\* Typecheck a constant value
typecheck_const(ty, tm) ==
    IF ty.k = "Int" /\ tm.k = "Int" THEN typecheck_int(ty.width, tm.value, tm.width)
    ELSE IF ty.k = "F64" /\ tm.k = "F64" THEN TcOk
    ELSE IF ty.k = "Tuple" THEN
        IF tm.k = "Tuple"
        THEN IF Len(ty.row) # Len(tm.xs) THEN TcErr("TupleWrongLength", <<>>)
             ELSE FirstFailure([i \in 1..Len(ty.row) |-> typecheck_const(ty.row[i], tm.xs[i])])
        ELSE TcErr("TypeMismatch", <<>>)
    ELSE IF ty.k = "Sum" THEN
        IF tm.k = "Sum"
        THEN IF SumTagInvalid(tm.tag, Len(ty.row)) THEN TcErr("InvalidSumTag", <<>>)
             ELSE IF ty.row # tm.variants THEN TcErr("TypeRowMismatch", <<>>)
             ELSE IF tm.tag >= Len(tm.variants) THEN TcPanic
             ELSE typecheck_const(tm.variants[tm.tag + 1], tm.val[1])
        ELSE TcErr("TypeMismatch", <<>>)
    ELSE IF ty.k = "String" THEN TcErr("Unimplemented", <<>>)
    ELSE IF ty.k = "Variable" THEN TcErr("ConstCantBeVar", <<>>)
    ELSE TcErr("TypeMismatch", <<>>)

(***************************************************************************)
(* SpecTc: typecheck_const called once on a type and a constant.           *)
(***************************************************************************)
\* widths of integer types and constants: the valid ones, and invalid ones around them
Widths == 0..(HUGR_MAX_INT_WIDTH + 1)
\* values of integer constants: small ones and the ones around each bound
IntValues ==
    {v \in {0, 3} \cup {2 ^ w - 1 : w \in VALID_WIDTHS} \cup {2 ^ w : w \in VALID_WIDTHS} :
        v <= ValueStoreMax}

\* the types and constants found inside rows, tuples and sums
ElemTypes == {IntT(HUGR_MAX_INT_WIDTH), IntT(2), F64T, SumT(<<F64T>>)}
ElemValues ==
    {IntV(3, HUGR_MAX_INT_WIDTH), IntV(3, 2), IntV(4, 2), F64V,
     SumV(0, <<F64T>>, F64V), SumV(1, <<F64T>>, F64V)}
VariantTypes == {IntT(HUGR_MAX_INT_WIDTH), F64T}
PayloadValues == {IntV(3, HUGR_MAX_INT_WIDTH), IntV(3, 2), F64V}

SeqsUpTo(S, n) == UNION {[1..k -> S] : k \in 0..n}

ClassicTypes ==
    {IntT(w) : w \in Widths} \cup {F64T, StringT, VariableT}
        \cup {TupleT(row) : row \in SeqsUpTo(ElemTypes, MaxRow)}
        \cup {SumT(row) : row \in SeqsUpTo(VariantTypes, MaxRow)}
ConstValues ==
    {IntV(v, w) : v \in IntValues, w \in Widths} \cup {F64V}
        \cup {TupleV(xs) : xs \in SeqsUpTo(ElemValues, MaxRow)}
        \cup {SumV(tag, variants, payload) :
                 tag \in 0..(MaxRow + 1), variants \in SeqsUpTo(VariantTypes, MaxRow),
                 payload \in PayloadValues}

\* a constant of each kind, to check against types of another kind
SomeValues == {IntV(3, HUGR_MAX_INT_WIDTH), F64V, TupleV(<<>>), SumV(0, <<F64T>>, F64V)}

InitTc ==
    /\ hugr = InitHugr
    /\ inputs = Some(CfgInputs)
    /\ ret = Ret("new", TRUE, "none", cfg_node)
    /\ nBranch = 0
    /\ succCalls = << >>
    /\ branchFailed = FALSE
    /\ entryOk = 0
    /\ entryNode = -1
    /\ budget = MaxCalls
    /\ scen = 0
    /\ SubIdle /\ RepIdle /\ RegIdle /\ FnIdle
    /\ typ \in ClassicTypes
    /\ val \in ConstValues
    /\ typ.k = val.k \/ val \in SomeValues
    /\ checked = <<>>

\* typecheck_const(typ, val)
typecheck ==
    /\ checked = <<>>
    /\ checked' = <<typecheck_const(typ, val)>>
    /\ UNCHANGED <<typ, val>>
    /\ UNCHANGED <<cfgvars, subvars, repvars, regvars, fnvars>>

NextTc == typecheck

SpecTc == InitTc /\ [][NextTc]_vars

\* the Input and Output children of the region, its other children, the consumers
\* of an Input port, the producers of an Output port, and the region's signature
RegionInput == view.children[1]
RegionOutput == view.children[2]
OtherChildren == Range(view.children) \ {RegionInput, RegionOutput}
Consumers(k) ==
    {NodePort(l.dst, Incoming, l.dport) :
        l \in {m \in LinkSet(view) : m.src = RegionInput /\ m.sport = k}}
Producers(k) ==
    {NodePort(l.src, Outgoing, l.sport) :
        l \in {m \in LinkSet(view) : m.dst = RegionOutput /\ m.dport = k}}
ParentSignature == [input |-> view.outs[RegionInput], output |-> view.ins[RegionOutput]]

\* what C12 says of an accepted dataflow subgraph: the nodes are the other
\* children, partition k holds the consumers of Input port k, output k is the
\* producer of Output port k, and the signature is the region's
C12_Described ==
    /\ subgraph.status = "Ok"
    /\ subgraph.nodes = OtherChildren
    /\ Len(subgraph.inputs) = Len(view.outs[RegionInput])
    /\ \A k \in 1..Len(subgraph.inputs) : Range(subgraph.inputs[k]) = Consumers(k - 1)
    /\ Len(subgraph.outputs) = Len(view.ins[RegionOutput])
    /\ \A k \in 1..Len(subgraph.outputs) : Producers(k - 1) = {subgraph.outputs[k]}
    /\ signature(view, subgraph) = [panic |-> FALSE] @@ ParentSignature

\* C12: on every region with a child besides Input and Output,
\* try_new_dataflow_subgraph returns the subgraph described above; on a region
\* with no other child it returns EmptySubgraph.
C12_DataflowSubgraphOfEveryRegion ==
    (pc = "returned" /\ subgraph.by = "try_new_dataflow_subgraph") =>
        IF OtherChildren = {}
        THEN subgraph.status = "Err" /\ subgraph.err = "EmptySubgraph"
        ELSE C12_Described

\* the signature of the subgraph read off the host: per partition the type of its
\* first port, per outgoing port its type
SubgraphSignature ==
    [input |-> [k \in 1..Len(subgraph.inputs) |-> PortType(subgraph.inputs[k][1])],
     output |-> [k \in 1..Len(subgraph.outputs) |-> PortType(subgraph.outputs[k])]]
RewriteIs(status, err) == rewrite.status = status /\ rewrite.err = err

\* C14: create_simple_replacement returns InvalidDataflowGraph when the root of
\* the replacement is not a DFG, otherwise InvalidDataflowParent when the root has
\* fewer than two children, otherwise InvalidSignature when the signature of the
\* root differs from the signature of the subgraph; the call leaves the host HUGR
\* and the subgraph as they were.
C14_ReplacementChecks ==
    /\ [](pc = "created" =>
            /\ replacement.root_tag # "Dfg" => RewriteIs("Err", "InvalidDataflowGraph")
            /\ (replacement.root_tag = "Dfg" /\ Len(replacement.children) < 2)
                   => RewriteIs("Err", "InvalidDataflowParent")
            /\ (replacement.root_tag = "Dfg" /\ Len(replacement.children) >= 2
                  /\ root_signature(replacement) # SubgraphSignature)
                   => RewriteIs("Err", "InvalidSignature")
            /\ rewrite.status = "Ok" =>
                   (/\ replacement.root_tag = "Dfg" /\ Len(replacement.children) >= 2
                    /\ root_signature(replacement) = SubgraphSignature))
    /\ [][pc' = "created" => (view' = view /\ subgraph' = subgraph)]_vars

\* tests::construct_simple_replacement_invalid_signature: the empty DFG QB -> QB
\* offered for the (QB, QB) -> (QB, QB) subgraph holding the cx gate
C14_Witness ==
    /\ pc = "created"
    /\ view = HugrCx /\ subgraph.by = "try_new_dataflow_subgraph" /\ subgraph.nodes = {3}
    /\ SubgraphSignature = [input |-> <<QB_T, QB_T>>, output |-> <<QB_T, QB_T>>]
    /\ replacement = RepEmptyQ
    /\ RewriteIs("Err", "InvalidSignature")

\* the ports linked to dataflow output port k of the replacement's Input, and the
\* host ports linked to outgoing boundary port p
RepTargets(k) ==
    {NodePort(l.dst, Incoming, l.dport) :
        l \in {m \in LinkSet(replacement) : m.src = replacement.children[1] /\ m.sport = k}}
HostConsumers(p) ==
    {NodePort(l.dst, Incoming, l.dport) :
        l \in {m \in LinkSet(view) : m.src = p.node /\ m.sport = p.offset}}

\* C15: when create_simple_replacement succeeds, nu_inp holds exactly the pairs of
\* a target of the i-th Input port of the replacement and a host port of the i-th
\* incoming partition, and nu_out exactly the pairs of a host port linked to the
\* j-th outgoing boundary port and the j-th port of the replacement's Output.
C15_BoundariesPairedByPosition ==
    (pc = "created" /\ rewrite.status = "Ok") =>
        /\ Len(subgraph.inputs) = Len(replacement.outs[replacement.children[1]])
        /\ Len(subgraph.outputs) = Len(replacement.ins[replacement.children[2]])
        /\ rewrite.nu_inp =
               UNION {RepTargets(i - 1) \X Range(subgraph.inputs[i]) :
                         i \in 1..Len(subgraph.inputs)}
        /\ rewrite.nu_out =
               UNION {HostConsumers(subgraph.outputs[j]) \X {j - 1} :
                         j \in 1..Len(subgraph.outputs)}

\* the and gate of build_hugr_classical, whose two inputs form one partition,
\* replaced by a DFG that copies its input to two targets
C15_Witness ==
    /\ pc = "created" /\ rewrite.status = "Ok"
    /\ view = HugrClassical /\ replacement = RepAnd
    /\ subgraph.inputs = << <<NodePort(3, Incoming, 0), NodePort(3, Incoming, 1)>> >>
    /\ rewrite.nu_inp = {NodePort(3, Incoming, 0), NodePort(3, Incoming, 1)}
                            \X {NodePort(3, Incoming, 0), NodePort(3, Incoming, 1)}
    /\ rewrite.nu_out = {<<NodePort(2, Incoming, 0), 0>>}

\* the number of nodes of the host
HostCount(h) == Cardinality(ViewNodes(h))

Checked(type_kind, value_kind) == checked # <<>> /\ typ.k = type_kind /\ val.k = value_kind
CheckedIs(r) == checked = <<r>>

\* C17: typecheck_const on a Sum type and a Sum value never panics; it returns
\* InvalidSumTag for every tag that is not below the number of variants, and for a
\* tag below it TypeRowMismatch when the rows of the type and of the value differ,
\* otherwise the result of checking the payload against the variant at the tag.
C17_SumTagChecked ==
    Checked("Sum", "Sum") =>
        /\ checked[1].status # "panic"
        /\ val.tag >= Len(typ.row) => CheckedIs(TcErr("InvalidSumTag", <<>>))
        /\ (val.tag < Len(typ.row) /\ typ.row # val.variants)
               => CheckedIs(TcErr("TypeRowMismatch", <<>>))
        /\ (val.tag < Len(typ.row) /\ typ.row = val.variants)
               => CheckedIs(typecheck_const(typ.row[val.tag + 1], val.val[1]))

\* C18: for an integer type of valid width t and an integer constant of valid
\* width w and value v, typecheck_const returns IntWidthMismatch(t, w) when t # w,
\* IntTooLarge(w, v) when t = w and v > 2^w - 1, and Ok otherwise; it never
\* panics on an overflow, and at the maximum width every value is accepted.
C18_IntWidthAndRange ==
    (Checked("Int", "Int") /\ typ.width \in VALID_WIDTHS /\ val.width \in VALID_WIDTHS) =>
        /\ checked[1].status # "panic"
        /\ typ.width # val.width
               => CheckedIs(TcErr("IntWidthMismatch", <<typ.width, val.width>>))
        /\ (typ.width = val.width /\ val.value > 2 ^ val.width - 1)
               => CheckedIs(TcErr("IntTooLarge", <<val.width, val.value>>))
        /\ (typ.width = val.width /\ val.value <= 2 ^ val.width - 1) => CheckedIs(TcOk)
        /\ (typ.width = HUGR_MAX_INT_WIDTH /\ val.width = HUGR_MAX_INT_WIDTH) => CheckedIs(TcOk)

\* the largest value of the store checked against the widest integer type
C18_Witness ==
    /\ Checked("Int", "Int")
    /\ typ = IntT(HUGR_MAX_INT_WIDTH)
    /\ val = IntV(ValueStoreMax, HUGR_MAX_INT_WIDTH)
    /\ CheckedIs(TcOk)

\* the outcome of checking element i of the tuple against type i of the row
ElementCheck(i) == typecheck_const(typ.row[i], val.xs[i])

\* C19: typecheck_const on a Tuple type with row r and a Tuple value with elements
\* xs returns TupleWrongLength when the lengths differ; otherwise it returns Ok
\* iff every element checks against the type at its position, and else the
\* outcome of the lowest-index element that does not check; a Tuple type against
\* a constant that is no Tuple gives TypeMismatch.
C19_TupleElementwise ==
    /\ Checked("Tuple", "Tuple") =>
          IF Len(typ.row) # Len(val.xs) THEN CheckedIs(TcErr("TupleWrongLength", <<>>))
          ELSE /\ CheckedIs(TcOk) <=> \A i \in 1..Len(val.xs) : ElementCheck(i) = TcOk
               /\ \A i \in 1..Len(val.xs) :
                     (ElementCheck(i) # TcOk /\ \A j \in 1..(i - 1) : ElementCheck(j) = TcOk)
                         => CheckedIs(ElementCheck(i))
    /\ (checked # <<>> /\ typ.k = "Tuple" /\ val.k # "Tuple")
          => CheckedIs(TcErr("TypeMismatch", <<>>))

\* both elements fail, the first with a width mismatch and the second with a
\* value too large: the width mismatch is returned
C19_Witness ==
    /\ Checked("Tuple", "Tuple")
    /\ typ = TupleT(<<IntT(HUGR_MAX_INT_WIDTH), IntT(2)>>)
    /\ val = TupleV(<<IntV(3, 2), IntV(4, 2)>>)
    /\ ElementCheck(1) = TcErr("IntWidthMismatch", <<HUGR_MAX_INT_WIDTH, 2>>)
    /\ ElementCheck(2) = TcErr("IntTooLarge", <<2, 4>>)
    /\ CheckedIs(TcErr("IntWidthMismatch", <<HUGR_MAX_INT_WIDTH, 2>>))

\* ---------------------------------------------------------------------------
\* ExtensionRegistry (src/src/extension.rs)
\* ---------------------------------------------------------------------------

\* the longest collection of extensions given to try_new
MaxExts == 3

\* ExtensionId: the names, ordered as the BTreeMap orders its keys
ExtensionIds == {1, 2, 3}

\* an Extension: its name and the extensions the signatures of its operations
\* refer to
Extension(name, refs) == [name |-> name, refs |-> refs]

Extensions ==
    {Extension(n, rs) : n \in ExtensionIds,
                        rs \in {{}} \cup {{r} : r \in ExtensionIds}}

\* Extension::validate(&self, all_exts): every operation is validated against the
\* registry; an operation that refers to an extension the registry lacks fails
ext_validate(ext, exts) ==
    IF ext.refs \subseteq DOMAIN exts
    THEN [status |-> "Ok", err |-> "none"]
    ELSE [status |-> "Err", err |-> "ExtensionNotFound"]

\* exts.insert(ext.name.clone(), ext) returns Some(prev) for the k-th extension
InsertFindsPrev(exts_in, k) == \E j \in 1..(k - 1) : exts_in[j].name = exts_in[k].name

RegOk(exts) == [status |-> "Ok", exts |-> exts, name |-> 0, err |-> "none"]
RegErr(name, err) ==
    [status |-> "Err", exts |-> [n \in {} |-> 0], name |-> name, err |-> err]
RegPanic == [status |-> "panic", exts |-> [n \in {} |-> 0], name |-> 0, err |-> "none"]

\* ExtensionRegistry::try_new(value)
registry_try_new(exts_in) ==
    IF \E k \in 1..Len(exts_in) : InsertFindsPrev(exts_in, k)
    THEN RegPanic   \* panic!("Multiple extensions with same name: ..")
    ELSE LET names == {exts_in[i].name : i \in 1..Len(exts_in)}
             exts == [n \in names |->
                         exts_in[CHOOSE i \in 1..Len(exts_in) : exts_in[i].name = n]]
             failing == {n \in names : ext_validate(exts[n], exts).status # "Ok"}
         IN  IF failing = {} THEN RegOk(exts)
             ELSE LET first == CHOOSE n \in failing : \A m \in failing : n <= m
                  IN  RegErr(first, ext_validate(exts[first], exts).err)

\* ExtensionRegistry::get(&self, name)
registry_get(reg, name) == IF name \in DOMAIN reg.exts THEN Some(reg.exts[name]) ELSE None

\* BTreeMap iteration: the keys in ascending order
KeysInOrder(keys) ==
    CHOOSE s \in [1..Cardinality(keys) -> keys] :
        \A i, j \in 1..Cardinality(keys) : i < j => s[i] < s[j]

\* IntoIterator for ExtensionRegistry: self.0.into_iter(), the (name, extension)
\* pairs as the BTreeMap yields them
registry_into_iter(reg) ==
    LET ks == KeysInOrder(DOMAIN reg.exts)
    IN  [i \in 1..Len(ks) |-> <<ks[i], reg.exts[ks[i]]>>]

InitReg ==
    /\ hugr = InitHugr
    /\ inputs = Some(CfgInputs)
    /\ ret = Ret("new", TRUE, "none", cfg_node)
    /\ nBranch = 0
    /\ succCalls = << >>
    /\ branchFailed = FALSE
    /\ entryOk = 0
    /\ entryNode = -1
    /\ budget = MaxCalls
    /\ scen = 0
    /\ SubIdle /\ RepIdle /\ TcIdle /\ FnIdle
    /\ value \in SeqsUpTo(Extensions, MaxExts)
    /\ registry = <<>>

\* ExtensionRegistry::try_new(value)
try_new_registry ==
    /\ registry = <<>>
    /\ registry' = <<registry_try_new(value)>>
    /\ UNCHANGED value
    /\ UNCHANGED <<cfgvars, subvars, repvars, tcvars, fnvars>>

NextReg == try_new_registry

SpecReg == InitReg /\ [][NextReg]_vars

\* two extensions of the collection have the same name
DuplicateNames ==
    \E i, j \in 1..Len(value) : i # j /\ value[i].name = value[j].name

\* C20: ExtensionRegistry::try_new on a collection in which two extensions have
\* the same name returns an error value and no registry; a registry it returns
\* holds exactly the supplied names, and get(name) returns the supplied extension
\* of that name.
C20_RegistryFromExtensions ==
    registry # <<>> =>
        /\ DuplicateNames =>
              (registry[1].status = "Err" /\ DOMAIN registry[1].exts = {})
        /\ registry[1].status = "Ok" =>
              /\ DOMAIN registry[1].exts = {value[i].name : i \in 1..Len(value)}
              /\ \A i \in 1..Len(value) :
                    registry_get(registry[1], value[i].name) = Some(value[i])

\* the extensions of the collection that do not validate against the registry
\* made of the whole collection, by their position in the collection
InvalidAt ==
    {i \in 1..Len(value) :
        ~(value[i].refs \subseteq {value[j].name : j \in 1..Len(value)})}

\* C21: an ExtensionRegistry iterates in insertion order: into_iter yields the
\* extensions in the order they were supplied to try_new, and when several
\* extensions are invalid try_new reports the one supplied first.
C21_RegistryInsertionOrder ==
    (registry # <<>> /\ ~DuplicateNames) =>
        /\ registry[1].status = "Ok" =>
              registry_into_iter(registry[1])
                  = [i \in 1..Len(value) |-> <<value[i].name, value[i]>>]
        /\ registry[1].status = "Err" =>
              \E i \in InvalidAt :
                  /\ \A j \in InvalidAt : i <= j
                  /\ registry[1].name = value[i].name

\* ---------------------------------------------------------------------------
\* ExtensionSet (src/src/extension.rs)
\* ---------------------------------------------------------------------------

\* the most extension sets given to union_over
MaxSets == 3
\* the largest type-variable index met in an extension set
MaxIdx == 10
\* the largest index given to insert_type_var / type_var
MaxVar == 120

\* an ExtensionId is its string, a sequence of characters
DigitChars == <<"0", "1", "2", "3", "4", "5", "6", "7", "8", "9">>

\* char::is_ascii_digit
is_ascii_digit(c) == \E d \in 1..10 : DigitChars[d] = c

\* mutant: only the last digit is written
to_string_LastDigit(n) == <<DigitChars[(n % 10) + 1]>>

\* usize::to_string: the decimal digits, most significant first
RECURSIVE to_string(_)
to_string(n) ==
    IF n < 10 THEN <<DigitChars[n + 1]>>
    ELSE to_string(n \div 10) \o <<DigitChars[(n % 10) + 1]>>

\* str::parse::<usize>: the number written by the digits, None when a character
\* is no digit or the string is empty
RECURSIVE parse_digits(_, _)
parse_digits(e, acc) ==
    IF e = <<>> THEN acc
    ELSE parse_digits(Tail(e),
                      10 * acc + ((CHOOSE d \in 1..10 : DigitChars[d] = Head(e)) - 1))
parse(e) ==
    IF e # <<>> /\ \A i \in 1..Len(e) : is_ascii_digit(e[i])
    THEN Some(parse_digits(e, 0))
    ELSE None

\* as_typevar(e): Some(index) when the first character is a digit, with the
\* unwrap of a failed parse a panic; None otherwise
as_typevar(e) ==
    IF e # <<>> /\ is_ascii_digit(e[1])
    THEN IF parse(e) = None THEN [status |-> "panic", idx |-> 0]
         ELSE [status |-> "Some", idx |-> parse(e)[1]]
    ELSE [status |-> "None", idx |-> 0]

\* ExtensionSet::new()
es_new == {}

\* ExtensionSet::insert(&mut self, extension)
es_insert(self, id) == self \cup {id}

\* ExtensionSet::insert_type_var(&mut self, idx)
insert_type_var(self, idx) == es_insert(self, to_string(idx))

\* ExtensionSet::type_var(idx)
type_var(idx) == insert_type_var(es_new, idx)

\* ExtensionSet::singleton(extension)
singleton(id) == es_insert(es_new, id)

\* BTreeSet::extend: every element of the other set is inserted
RECURSIVE extend(_, _)
extend(self, other) ==
    IF other = {} THEN self
    ELSE LET e == CHOOSE x \in other : TRUE
         IN  extend(es_insert(self, e), other \ {e})

\* mutant: the other set is dropped
union_KeepSelf(self, other) == self

\* ExtensionSet::union(self, other)
union(self, other) == extend(self, other)

\* ExtensionSet::union_over(sets)
RECURSIVE union_over(_)
union_over(sets) ==
    IF sets = <<>> THEN es_new
    ELSE extend(union_over(SubSeq(sets, 1, Len(sets) - 1)), sets[Len(sets)])

\* mutant: the difference is taken the other way round
missing_from_Swapped(self, other) == {e \in self : e \notin other}

\* ExtensionSet::missing_from(&self, other): other.0.difference(&self.0)
missing_from(self, other) == {e \in other : e \notin self}

\* ExtensionSet::is_subset / is_superset
is_subset(self, other) == \A e \in self : e \in other
is_superset(self, other) == \A e \in other : e \in self

\* TypeParam and TypeArg, as far as extension sets meet them
ExtensionsParam == "Extensions"
TypeParamKinds == {"Extensions", "Type"}
ExtensionsArg(es) == [tag |-> "Extensions", es |-> es]
OtherArg == [tag |-> "Type", es |-> {}]

\* check_typevar_decl(params, idx, &TypeParam::Extensions): the variable is
\* declared, with that kind
check_typevar_decl(params, idx, kind) ==
    IF idx + 1 <= Len(params) /\ params[idx + 1] = kind
    THEN [status |-> "Ok", err |-> "none"]
    ELSE [status |-> "Err", err |-> "TypeVarDoesNotMatchDeclaration"]

\* the type-variable indices of a set, filter_map(as_typevar)
TypeVarsOf(self) == {as_typevar(e).idx : e \in {x \in self : as_typevar(x).status = "Some"}}

\* ExtensionSet::validate(&self, params)
es_validate(self, params) ==
    IF \E e \in self : as_typevar(e).status = "panic" THEN [status |-> "panic", err |-> "none"]
    ELSE IF \A i \in TypeVarsOf(self) : check_typevar_decl(params, i, ExtensionsParam).status = "Ok"
         THEN [status |-> "Ok", err |-> "none"]
         ELSE [status |-> "Err", err |-> "TypeVarDoesNotMatchDeclaration"]

\* Substitution::apply_var(i, &TypeParam::Extensions): the TypeArg bound to i
apply_var(t, i) == t[i]

\* mutant: the elements that are no type variables are dropped
substitute_VarsOnly(self, t) ==
    IF \E e \in self : as_typevar(e).status = "Some"
                       /\ apply_var(t, as_typevar(e).idx).tag # "Extensions"
    THEN [status |-> "panic", set |-> {}]
    ELSE [status |-> "Ok",
          set |-> UNION {apply_var(t, as_typevar(e).idx).es :
                            e \in {x \in self : as_typevar(x).status = "Some"}}]

\* ExtensionSet::substitute(&self, t)
substitute(self, t) ==
    IF \E e \in self :
          \/ as_typevar(e).status = "panic"
          \/ /\ as_typevar(e).status = "Some"
             /\ apply_var(t, as_typevar(e).idx).tag # "Extensions"
    THEN [status |-> "panic", set |-> {}]
    ELSE [status |-> "Ok",
          set |-> UNION {IF as_typevar(e).status = "None" THEN {e}
                         ELSE apply_var(t, as_typevar(e).idx).es : e \in self}]

\* the extension ids and type variables the sets are made of
LegalIds == {<<"a">>, <<"b", "1">>}
TypeVarIdxs == {0, MaxIdx}
ExtensionSets == SUBSET (LegalIds \cup {to_string(i) : i \in TypeVarIdxs})

\* the substitutions: each variable bound to an extension set or to a type
TypeArgs == {OtherArg} \cup {ExtensionsArg(es) : es \in {{}, {<<"a">>}, {<<"b", "1">>, to_string(0)}}}
Substitutions == [TypeVarIdxs -> TypeArgs]

\* the parameter lists: n parameters, of which those at the indices in use are
\* of either kind and the others are types
ParamLists ==
    {[i \in 1..n |-> IF i = 1 THEN k0 ELSE IF i = MaxIdx + 1 THEN kn ELSE "Type"] :
        n \in {0, 1, MaxIdx, MaxIdx + 1}, k0 \in TypeParamKinds, kn \in TypeParamKinds}

InitSet ==
    /\ hugr = InitHugr
    /\ inputs = Some(CfgInputs)
    /\ ret = Ret("new", TRUE, "none", cfg_node)
    /\ nBranch = 0
    /\ succCalls = << >>
    /\ branchFailed = FALSE
    /\ entryOk = 0
    /\ entryNode = -1
    /\ budget = MaxCalls
    /\ scen = 0
    /\ SubIdle /\ RepIdle /\ TcIdle /\ RegIdle
    /\ extension = <<>>
    /\ \/ \E sets \in SeqsUpTo(ExtensionSets, MaxSets) :
             operands = [k |-> "sets", sets |-> sets]
       \/ \E self \in ExtensionSets, t \in Substitutions :
             operands = [k |-> "substitute", self |-> self, t |-> t]
       \/ \E self \in ExtensionSets, params \in ParamLists :
             operands = [k |-> "validate", self |-> self, params |-> params]
       \/ \E idx \in 0..MaxVar :
             operands = [k |-> "type_var", idx |-> idx]
    /\ result = <<>>

Called(fn, out) ==
    /\ result = <<>>
    /\ result' = <<[fn |-> fn, out |-> out]>>
    /\ UNCHANGED <<extension, operands>>
    /\ UNCHANGED <<cfgvars, subvars, repvars, tcvars, regvars>>

\* sets[0].union(&sets[1]), and .union(&sets[2]) when there is a third
es_union ==
    /\ operands.k = "sets" /\ Len(operands.sets) >= 2
    /\ Called("union",
              IF Len(operands.sets) = 2 THEN union(operands.sets[1], operands.sets[2])
              ELSE union(union(operands.sets[1], operands.sets[2]), operands.sets[3]))

\* ExtensionSet::union_over(sets)
es_union_over ==
    /\ operands.k = "sets"
    /\ Called("union_over", union_over(operands.sets))

\* sets[0].missing_from(&sets[1])
es_missing_from ==
    /\ operands.k = "sets" /\ Len(operands.sets) >= 2
    /\ Called("missing_from", missing_from(operands.sets[1], operands.sets[2]))

\* sets[1].is_subset(&sets[0])
es_is_subset ==
    /\ operands.k = "sets" /\ Len(operands.sets) >= 2
    /\ Called("is_subset", is_subset(operands.sets[2], operands.sets[1]))

\* self.substitute(&t)
es_substitute ==
    /\ operands.k = "substitute"
    /\ Called("substitute", substitute(operands.self, operands.t))

\* self.validate(&params)
es_validate_call ==
    /\ operands.k = "validate"
    /\ Called("validate", es_validate(operands.self, operands.params))

\* ExtensionSet::type_var(idx)
es_type_var ==
    /\ operands.k = "type_var"
    /\ Called("type_var", type_var(operands.idx))

NextSet ==
    \/ es_union
    \/ es_union_over
    \/ es_missing_from
    \/ es_is_subset
    \/ es_substitute
    \/ es_validate_call
    \/ es_type_var

SpecSet == InitSet /\ [][NextSet]_vars

\* the function fn has been called and has returned
FnReturned(fn) == result # <<>> /\ result[1].fn = fn

\* folding union over a list of sets, from the set acc
RECURSIVE UnionFold(_, _)
UnionFold(acc, sets) ==
    IF sets = <<>> THEN acc ELSE UnionFold(union(acc, Head(sets)), Tail(sets))

\* C22: ExtensionSet union is commutative, associative and idempotent, and
\* union_over of a list of sets is the fold of union over the list from the
\* empty set.
C22_UnionLaws ==
    /\ FnReturned("union") =>
          LET a == operands.sets[1]
              b == operands.sets[2]
          IN  /\ union(a, b) = union(b, a)
              /\ union(a, a) = a
              /\ union(b, b) = b
              /\ Len(operands.sets) = 2 => result[1].out = union(b, a)
              /\ Len(operands.sets) = 3 =>
                    result[1].out = union(a, union(b, operands.sets[3]))
    /\ FnReturned("union_over") =>
          result[1].out = UnionFold(es_new, operands.sets)

\* three different sets that overlap pairwise, one with a type variable, have
\* been united
C22_Witness ==
    /\ FnReturned("union")
    /\ operands.sets = <<{<<"a">>, to_string(0)}, {<<"a">>, <<"b", "1">>},
                         {<<"b", "1">>, to_string(0)}>>
    /\ result[1].out = {<<"a">>, <<"b", "1">>, to_string(0)}

\* C23: a.missing_from(b) is the set of the elements of b that are not in a: it
\* is a subset of b, a.union(a.missing_from(b)) is a superset of b, and it is
\* empty iff b.is_subset(a).
C23_MissingFrom ==
    (FnReturned("missing_from") \/ FnReturned("is_subset")) =>
        LET a == operands.sets[1]
            b == operands.sets[2]
            m == missing_from(a, b)
        IN  /\ FnReturned("missing_from") => result[1].out = m
            /\ FnReturned("is_subset") => (result[1].out <=> m = {})
            /\ m = b \ a
            /\ is_subset(m, b)
            /\ is_superset(union(a, m), b)
            /\ (m = {}) <=> is_subset(b, a)

\* a and b overlap and each has an element the other lacks
C23_Witness ==
    /\ FnReturned("missing_from")
    /\ operands.sets[1] = {<<"a">>, to_string(0)}
    /\ operands.sets[2] = {<<"a">>, <<"b", "1">>}
    /\ result[1].out = {<<"b", "1">>}

\* the elements of the set self that stand for type variables, and their indices
VarElements(self) == {e \in self : \E i \in TypeVarIdxs : e = to_string(i)}
VarIndices(self) == {i \in TypeVarIdxs : to_string(i) \in self}

\* C24: ExtensionSet::substitute returns the union of the elements that are no
\* type variables, unchanged, and of the extension sets the substitution binds
\* to the indices of the type-variable elements; it panics when one of these
\* indices is bound to a TypeArg that is no extension set; a set without type
\* variables is returned unchanged.
C24_Substitute ==
    FnReturned("substitute") =>
        LET self == operands.self
            t == operands.t
            out == result[1].out
        IN  IF \E i \in VarIndices(self) : t[i].tag # "Extensions"
            THEN out.status = "panic"
            ELSE /\ out.status = "Ok"
                 /\ out.set = (self \ VarElements(self))
                                  \cup UNION {t[i].es : i \in VarIndices(self)}
                 /\ VarIndices(self) = {} => out.set = self

\* a set with an extension id and both type variables, one bound to the empty
\* set and one to a set that itself holds a type variable
C24_Witness ==
    /\ FnReturned("substitute")
    /\ operands.self = {<<"a">>, to_string(0), to_string(MaxIdx)}
    /\ operands.t[0] = ExtensionsArg({})
    /\ operands.t[MaxIdx] = ExtensionsArg({<<"b", "1">>, to_string(0)})
    /\ result[1].out = [status |-> "Ok", set |-> {<<"a">>, <<"b", "1">>, to_string(0)}]

\* the parameter list declares the variable i as an extension set
DeclaredExtensions(params, i) == i + 1 <= Len(params) /\ params[i + 1] = "Extensions"

\* C25: the element added by type_var(i) is decoded by as_typevar as Some(i),
\* different indices give different elements, and a legal ExtensionId is decoded
\* as None; validate(params) fails exactly when the set holds a type variable
\* whose index the parameters do not declare as an extension set.
C25_TypeVarEncoding ==
    /\ FnReturned("type_var") =>
          LET i == operands.idx
              e == to_string(i)
          IN  /\ result[1].out = {e}
              /\ as_typevar(e) = [status |-> "Some", idx |-> i]
              /\ \A j \in 0..MaxVar : j # i => to_string(j) # e
              /\ e \notin LegalIds
    /\ FnReturned("validate") =>
          /\ \A id \in LegalIds : as_typevar(id).status = "None"
          /\ result[1].out.status \in {"Ok", "Err"}
          /\ result[1].out.status = "Err" <=>
                \E i \in VarIndices(operands.self) :
                    ~DeclaredExtensions(operands.params, i)

\* the type variable of a two-digit index
C25_Witness ==
    /\ FnReturned("type_var")
    /\ operands.idx = 12
    /\ result[1].out = {<<"1", "2">>}
    /\ as_typevar(<<"1", "2">>).idx = 12

\* ---------------------------------------------------------------------------
\* TypeRow (src/src/types/simple.rs)
\* ---------------------------------------------------------------------------

\* the longest type row
MaxTypes == 3

\* SimpleType::Classic(..) and SimpleType::Quantum(..)
Classic(t) == [kind |-> "Classic", ty |-> t]
Quantum(t) == [kind |-> "Quantum", ty |-> t]
SimpleTypes == {Classic("Nat"), Classic("Bit"), Quantum("Qubit"), Quantum("Money")}

\* SimpleType::is_linear / is_classical
is_linear(t) == t.kind = "Quantum"
is_classical(t) == t.kind = "Classic"

\* Iterator::all over the types of the row
all(types, pred(_)) == \A i \in 1..Len(types) : pred(types[i])

\* TypeRow::purely_linear
purely_linear(types) == all(types, is_linear)

\* TypeRow::purely_classical
purely_classical(types) == ~all(types, is_classical)

InitRow ==
    /\ hugr = InitHugr
    /\ inputs = Some(CfgInputs)
    /\ ret = Ret("new", TRUE, "none", cfg_node)
    /\ nBranch = 0
    /\ succCalls = << >>
    /\ branchFailed = FALSE
    /\ entryOk = 0
    /\ entryNode = -1
    /\ budget = MaxCalls
    /\ scen = 0
    /\ SubIdle /\ RepIdle /\ TcIdle /\ RegIdle
    /\ extension = <<>>
    /\ \E types \in SeqsUpTo(SimpleTypes, MaxTypes) :
          operands = [k |-> "row", types |-> types]
    /\ result = <<>>

\* row.purely_linear()
row_purely_linear ==
    /\ operands.k = "row"
    /\ Called("purely_linear", purely_linear(operands.types))

\* row.purely_classical()
row_purely_classical ==
    /\ operands.k = "row"
    /\ Called("purely_classical", purely_classical(operands.types))

NextRow == row_purely_linear \/ row_purely_classical

SpecRow == InitRow /\ [][NextRow]_vars

\* C26: TypeRow::purely_classical returns true exactly when every element of
\* the row is classical, the empty row included, and purely_linear returns true
\* exactly when every element is linear.
C26_PurelyClassical ==
    /\ FnReturned("purely_classical") =>
          (result[1].out <=>
              \A i \in 1..Len(operands.types) : operands.types[i].kind = "Classic")
    /\ FnReturned("purely_linear") =>
          (result[1].out <=>
              \A i \in 1..Len(operands.types) : operands.types[i].kind = "Quantum")

\* C27: branch is complete-or-fail: a branch call that returns an error leaves
\* the HUGR as it was before the call; in particular the successor has no more
\* incoming ports than before.
C27_BranchCompleteOrFail ==
    [][(nBranch' = nBranch + 1 /\ ret'.call = "branch" /\ ~ret'.ok) => hugr' = hugr]_vars

\* the children of the CFG node that are exit blocks
ExitChildren ==
    {k \in 1..Len(hugr.children[cfg_node]) :
        hugr.op[hugr.children[cfg_node][k]].kind = "Exit"}

\* C28: after any sequence of block_builder, entry_builder, branch and
\* exit_block calls the CFG node has exactly one exit child, that child is its
\* last child, and exit_block returns that node every time.
C28_OneExitLast ==
    /\ Cardinality(ExitChildren) = 1
    /\ ExitChildren = {Len(hugr.children[cfg_node])}
    /\ ret.call = "exit_block" =>
          /\ ret.node = hugr.children[cfg_node][Len(hugr.children[cfg_node])]
          /\ ret.node = exit_node

\* exit_block called after an entry block and another block have been built and
\* a branch made
C28_Witness ==
    /\ ret.call = "exit_block"
    /\ Len(hugr.children[cfg_node]) = 3
    /\ entryOk = 1
    /\ nBranch >= 1
    /\ ret.node = hugr.children[cfg_node][3]

\* the width is a power of two
PowerOfTwo(w) == \E n \in 0..w : 2 ^ n = w

\* the error the width w alone calls for, None when the width is accepted
WidthError(w) ==
    IF w > HUGR_MAX_INT_WIDTH THEN Some(TcErr("IntWidthTooLarge", <<w>>))
    ELSE IF ~PowerOfTwo(w) THEN Some(TcErr("IntWidthInvalid", <<w>>))
    ELSE None

\* C29: for an integer type checked against an integer constant, typecheck_const
\* accepts only the widths that are powers of two up to HUGR_MAX_INT_WIDTH: a
\* larger width gives IntWidthTooLarge(width), any other width that is no power of
\* two gives IntWidthInvalid(width); the width of the type is checked before the
\* width of the constant, and both before the width-mismatch and value-range
\* checks.
C29_WidthsCheckedFirst ==
    Checked("Int", "Int") =>
        IF WidthError(typ.width) # None THEN CheckedIs(WidthError(typ.width)[1])
        ELSE IF WidthError(val.width) # None THEN CheckedIs(WidthError(val.width)[1])
        ELSE /\ checked[1].err \notin {"IntWidthTooLarge", "IntWidthInvalid"}
             /\ typ.width # val.width =>
                   CheckedIs(TcErr("IntWidthMismatch", <<typ.width, val.width>>))

\* the type has a width that is no power of two and the constant a width above
\* the maximum: the error is the one of the type
C29_Witness ==
    /\ Checked("Int", "Int")
    /\ typ.width = 3
    /\ val.width = HUGR_MAX_INT_WIDTH + 1
    /\ CheckedIs(TcErr("IntWidthInvalid", <<3>>))

\* ---------------------------------------------------------------------------
\* Extension::add_value (src/src/extension.rs)
\* ---------------------------------------------------------------------------

\* the names of values and the constants given to add_value
ValueNames == {"FALSE", "TRUE", "x"}
TypedValues == {"unit_sum(0, 2)", "unit_sum(1, 2)"}

\* ExtensionValue { extension, name, typed_value }
ExtensionValue(ext_name, name, typed_value) ==
    [extension |-> ext_name, name |-> name, typed_value |-> typed_value]

\* Extension::new(name) with the operations and types it is then given
NewExtension(name, types, operations) ==
    [name |-> name, types |-> types, values |-> [n \in {} |-> 0], operations |-> operations]

\* mutant: the value is stored also when the name is taken
add_value_Overwrite(self, name, typed_value) ==
    LET extension_value == ExtensionValue(self.name, name, typed_value)
    IN  [ext |-> [self EXCEPT !.values = (name :> extension_value) @@ @],
         out |-> IF name \in DOMAIN self.values
                 THEN [status |-> "Err", err |-> "OpDefExists", name |-> name]
                 ELSE [status |-> "Ok", err |-> "none", name |-> name]]

\* Extension::add_value(&mut self, name, typed_value): the extension afterwards
\* and what the call returns
add_value(self, name, typed_value) ==
    LET extension_value == ExtensionValue(self.name, name, typed_value)
    IN  IF extension_value.name \in DOMAIN self.values
        THEN [ext |-> self,
              out |-> [status |-> "Err", err |-> "OpDefExists", name |-> extension_value.name]]
        ELSE [ext |-> [self EXCEPT !.values = (extension_value.name :> extension_value) @@ @],
              out |-> [status |-> "Ok", err |-> "none", name |-> extension_value.name]]

\* Extension::get_value(&self, name)
get_value(self, name) == IF name \in DOMAIN self.values THEN Some(self.values[name]) ELSE None

InitExt ==
    /\ hugr = InitHugr
    /\ inputs = Some(CfgInputs)
    /\ ret = Ret("new", TRUE, "none", cfg_node)
    /\ nBranch = 0
    /\ succCalls = << >>
    /\ branchFailed = FALSE
    /\ entryOk = 0
    /\ entryNode = -1
    /\ budget = MaxCalls
    /\ scen = 0
    /\ SubIdle /\ RepIdle /\ TcIdle /\ RegIdle
    /\ extension \in {NewExtension("logic", {}, {"And", "Or", "Not"}),
                      NewExtension("prelude", {"usize"}, {})}
    /\ operands = <<>>
    /\ result = <<>>

\* extension.add_value(name, typed_value)
ext_add_value(name, typed_value) ==
    /\ extension' = add_value(extension, name, typed_value).ext
    /\ operands' = [k |-> "add_value", name |-> name, typed_value |-> typed_value]
    /\ result' = <<[fn |-> "add_value", out |-> add_value(extension, name, typed_value).out]>>
    /\ UNCHANGED <<cfgvars, subvars, repvars, tcvars, regvars>>

\* extension.get_value(name)
ext_get_value(name) ==
    /\ operands' = [k |-> "get_value", name |-> name, typed_value |-> "none"]
    /\ result' = <<[fn |-> "get_value", out |-> get_value(extension, name)]>>
    /\ UNCHANGED extension
    /\ UNCHANGED <<cfgvars, subvars, repvars, tcvars, regvars>>

NextExt ==
    \/ \E name \in ValueNames, typed_value \in TypedValues : ext_add_value(name, typed_value)
    \/ \E name \in ValueNames : ext_get_value(name)

SpecExt == InitExt /\ [][NextExt]_vars

\* every stored value is stored under its own name and carries the name of the
\* extension
ValuesKeyedByName ==
    \A n \in DOMAIN extension.values :
        /\ extension.values[n].name = n
        /\ extension.values[n].extension = extension.name

\* what a step that is an add_value call does
AddValueStep ==
    (result' # <<>> /\ result'[1].fn = "add_value") =>
        LET name == operands'.name
            out == result'[1].out
        IN  IF name \notin DOMAIN extension.values
            THEN /\ out = [status |-> "Ok", err |-> "none", name |-> name]
                 /\ get_value(extension', name)
                       = Some(ExtensionValue(extension.name, name, operands'.typed_value))
                 /\ DOMAIN extension'.values = DOMAIN extension.values \cup {name}
                 /\ \A m \in DOMAIN extension.values :
                       extension'.values[m] = extension.values[m]
                 /\ extension'.name = extension.name
                 /\ extension'.types = extension.types
                 /\ extension'.operations = extension.operations
            ELSE /\ out = [status |-> "Err", err |-> "OpDefExists", name |-> name]
                 /\ extension' = extension

\* C30: over any sequence of add_value calls on one Extension the value names
\* stay unique and the first value wins: add_value with an unused name stores
\* the value under that name, tagged with the extension's name, and get_value
\* returns it; add_value with a name already present returns
\* Err(OpDefExists(name)) and leaves the values, types and operations unchanged.
C30_AddValueFirstWins ==
    /\ []ValuesKeyedByName
    /\ [][AddValueStep]_vars
    /\ [][(result' # <<>> /\ result'[1].fn = "get_value") =>
             result'[1].out = get_value(extension, operands'.name)]_vars

\* add_value called with the name of a stored value and another constant: the
\* call is refused and the stored value kept
C30_Witness ==
    /\ result # <<>> /\ result[1].fn = "add_value"
    /\ result[1].out = [status |-> "Err", err |-> "OpDefExists", name |-> "TRUE"]
    /\ operands.typed_value = "unit_sum(0, 2)"
    /\ get_value(extension, "TRUE") = Some(ExtensionValue("logic", "TRUE", "unit_sum(1, 2)"))
    /\ "FALSE" \in DOMAIN extension.values

====
